---- MODULE Spec2Model ----
(***************************************************************************)
(* A model of petitset: PetitMap (src/src/map.rs), a fixed-capacity,       *)
(* array-backed map searched by linear scan, and PetitSet                  *)
(* (src/src/set.rs), the set of the same design.                           *)
(*                                                                         *)
(* An Option<T> is a sequence of length at most one: None is <<>> and      *)
(* Some(x) is <<x>>.  A map entry (K, V) is the pair <<k, v>>.  The        *)
(* storage array [Option<(K, V)>; CAP] is a function on 0..CAP-1.          *)
(*                                                                         *)
(* The state holds the container, the container as it was before the last  *)
(* call (prev), and the last call with its arguments and its result        *)
(* (last), so that what a call returned and what it changed can be stated  *)
(* as state predicates.  The caller then takes the result (Return), which  *)
(* clears that record, and makes its next call.  A panic ends the run: no  *)
(* step is enabled after it.                                               *)
(***************************************************************************)
EXTENDS Integers, Sequences, FiniteSets

VARIABLES storage, elems, prev, last, amap, it, fifo

vars == <<storage, elems, prev, last, amap, it, fifo>>

\* The const generic parameter CAP of the container under check.
CAP == 3

\* Keys 1..CAP+1: one more distinct key than the container has slots.
Keys == 1 .. (CAP + 1)

\* Two distinguishable values are what overwriting needs.
Vals == {11, 12}

Indices == 0 .. (CAP - 1)

\* Index arguments: the slots, CAP (which the asserts index <= CAP let
\* through) and CAP + 1 (which they stop).
IndexArgs == 0 .. (CAP + 1)

None == <<>>

Some(x) == <<x>>

is_some(o) == o # <<>>

is_none(o) == o = <<>>

unwrap(o) == o[1]

\* The key and the value of an occupied slot.
KeyOf(slot) == slot[1][1]

ValOf(slot) == slot[1][2]

Entries == {<<k, v>> : k \in Keys, v \in Vals}

Slots == {None} \cup {Some(e) : e \in Entries}

\* PetitMap::new: every slot None.
new == [i \in Indices |-> None]

\* len with its count one too high.
len_one_more(s) == Cardinality({i \in DOMAIN s : is_some(s[i])}) + 1

\* PetitMap::len: self.storage.iter().filter(|e| e.is_some()).count()
len(s) == Cardinality({i \in DOMAIN s : is_some(s[i])})

capacity == CAP

is_empty(s) == len(s) = 0

is_full(s) == len(s) = CAP

\* (cursor..CAP).find(|&i| self.storage[i].is_some())
RECURSIVE scan_filled(_, _)
scan_filled(s, i) ==
    IF i >= CAP THEN None
    ELSE IF is_some(s[i]) THEN Some(i)
    ELSE scan_filled(s, i + 1)

next_filled_index(s, cursor) ==
    IF cursor >= CAP THEN None ELSE scan_filled(s, cursor)

\* next_empty_index as an append: the slot after the last occupied one, and
\* the first empty slot only when there is none after it.
next_empty_index_append(s, cursor) ==
    LET filled == {i \in Indices : is_some(s[i])}
        top == IF filled = {} THEN 0
               ELSE 1 + (CHOOSE i \in filled : \A j \in filled : j <= i)
        empty == {i \in Indices : i >= cursor /\ is_none(s[i])}
    IN  IF cursor >= CAP \/ empty = {} THEN None
        ELSE IF top < CAP /\ top >= cursor THEN Some(top)
        ELSE Some(CHOOSE i \in empty : \A j \in empty : i <= j)

\* (cursor..CAP).find(|&i| self.storage[i].is_none())
RECURSIVE scan_empty(_, _)
scan_empty(s, i) ==
    IF i >= CAP THEN None
    ELSE IF is_none(s[i]) THEN Some(i)
    ELSE scan_empty(s, i + 1)

next_empty_index(s, cursor) ==
    IF cursor >= CAP THEN None ELSE scan_empty(s, cursor)

\* The loop of PetitMap::find from index on: the first slot whose key is key.
RECURSIVE find_from(_, _, _)
find_from(s, key, index) ==
    IF index >= CAP THEN None
    ELSE IF is_some(s[index]) /\ KeyOf(s[index]) = key THEN Some(index)
    ELSE find_from(s, key, index + 1)

\* find with its loop started one slot late.
find_skip_first(s, key) == find_from(s, key, 1)

find(s, key) == find_from(s, key, 0)

contains_key(s, key) == is_some(find(s, key))

\* PetitMap::get: the value of the slot find names.
get(s, key) ==
    LET f == find(s, key)
    IN  IF is_some(f) /\ is_some(s[unwrap(f)])
        THEN Some(ValOf(s[unwrap(f)]))
        ELSE None

\* A call's outcome: the storage it leaves and what it returns.  A returned
\* value is a tuple that starts with a tag: <<"None">>, <<"Some", x>>,
\* <<"Bool", b>>, <<"Unit">>, <<"Ok", x>>, <<"Err", x>>, <<"NovelKey", i>>,
\* <<"ExtantKey", v, i>>, <<"Pair", i, b>> for the set's (usize, bool), and
\* <<"Panic">> for a call that panicked.
Outcome(st, ret) == [st |-> st, ret |-> ret]

Panic == <<"Panic">>

Unit == <<"Unit">>

Bool(b) == <<"Bool", b>>

\* An Option as a returned value.
Ret(o) == IF is_some(o) THEN <<"Some", unwrap(o)>> ELSE <<"None">>

panics(r) == r.ret[1] = "Panic"

\* PetitMap::get_at: the assert lets index = CAP through and the array
\* access then panics, so every index >= CAP panics.
get_at(s, index) ==
    IF index > CAP THEN Outcome(s, Panic)
    ELSE IF index >= CAP THEN Outcome(s, Panic)
    ELSE Outcome(s, Ret(s[index]))

\* take_at that closes the gap: the entries after index move down by one.
take_at_compacting(s, index) ==
    IF index >= CAP THEN Outcome(s, Panic)
    ELSE IF is_some(s[index])
         THEN Outcome([i \in Indices |->
                          IF i < index THEN s[i]
                          ELSE IF i + 1 < CAP THEN s[i + 1] ELSE None],
                      Ret(s[index]))
         ELSE Outcome(s, Ret(None))

\* PetitMap::take_at: an occupied slot is swapped with None and returned.
take_at(s, index) ==
    IF index > CAP THEN Outcome(s, Panic)
    ELSE IF index >= CAP THEN Outcome(s, Panic)
    ELSE IF is_some(s[index])
         THEN Outcome([s EXCEPT ![index] = None], Ret(s[index]))
         ELSE Outcome(s, Ret(None))

\* PetitMap::remove_at: take_at(index).is_some()
remove_at(s, index) ==
    LET r == take_at(s, index)
    IN  IF panics(r) THEN r ELSE Outcome(r.st, Bool(r.ret[1] = "Some"))

\* swap_at that copies slot index_a over slot index_b.
swap_at_overwriting(s, index_a, index_b) ==
    IF index_a >= CAP \/ index_b >= CAP THEN Outcome(s, Panic)
    ELSE Outcome([s EXCEPT ![index_b] = s[index_a]], Unit)

\* PetitMap::swap_at: the asserts let CAP through, <[T]>::swap panics on it.
swap_at(s, index_a, index_b) ==
    IF index_a > CAP \/ index_b > CAP THEN Outcome(s, Panic)
    ELSE IF index_a >= CAP \/ index_b >= CAP THEN Outcome(s, Panic)
    ELSE Outcome([s EXCEPT ![index_a] = s[index_b], ![index_b] = s[index_a]], Unit)

\* PetitMap::clear
clear(s) == Outcome([index \in Indices |-> None], Unit)

\* PetitMap::insert_unchecked: the next empty slot, with no look at the keys.
insert_unchecked(s, key, value) ==
    LET e == next_empty_index(s, 0)
    IN  IF is_none(e) THEN Outcome(s, Ret(None))
        ELSE Outcome([s EXCEPT ![unwrap(e)] = Some(<<key, value>>)], Ret(e))

\* try_insert without its look for the key: every pair goes to the next
\* empty slot.
try_insert_no_find(s, key, value) ==
    LET e == next_empty_index(s, 0)
    IN  IF is_some(e)
        THEN Outcome([s EXCEPT ![unwrap(e)] = Some(<<key, value>>)],
                     <<"Ok", <<"NovelKey", unwrap(e)>> >>)
        ELSE Outcome(s, <<"Err", <<key, value>> >>)

\* try_insert that asks for an empty slot before it looks for the key: a
\* full map rejects a key it holds.
try_insert_full_first(s, key, value) ==
    LET f == find(s, key)
        e == next_empty_index(s, 0)
    IN  IF is_none(e) THEN Outcome(s, <<"Err", <<key, value>> >>)
        ELSE IF is_some(f)
        THEN LET index == unwrap(f)
             IN  Outcome([s EXCEPT ![index] = Some(<<KeyOf(s[index]), value>>)],
                         <<"Ok", <<"ExtantKey", ValOf(s[index]), index>> >>)
        ELSE Outcome([s EXCEPT ![unwrap(e)] = Some(<<key, value>>)],
                     <<"Ok", <<"NovelKey", unwrap(e)>> >>)

\* try_insert that forgets the swap: the value stored for a present key
\* stays, and the new value is what comes back.
try_insert_no_swap(s, key, value) ==
    LET f == find(s, key)
        e == next_empty_index(s, 0)
    IN  IF is_some(f) THEN Outcome(s, <<"Ok", <<"ExtantKey", value, unwrap(f)>> >>)
        ELSE IF is_some(e)
        THEN Outcome([s EXCEPT ![unwrap(e)] = Some(<<key, value>>)],
                     <<"Ok", <<"NovelKey", unwrap(e)>> >>)
        ELSE Outcome(s, <<"Err", <<key, value>> >>)

\* PetitMap::try_insert: the value of a present key is swapped with the new
\* one (the stored key stays), a new key goes to the next empty slot, and a
\* new key with no empty slot comes back in the error.
try_insert(s, key, value) ==
    LET f == find(s, key)
        e == next_empty_index(s, 0)
    IN  IF is_some(f)
        THEN LET index == unwrap(f)
             IN  Outcome([s EXCEPT ![index] = Some(<<KeyOf(s[index]), value>>)],
                         <<"Ok", <<"ExtantKey", ValOf(s[index]), index>> >>)
        ELSE IF is_some(e)
        THEN Outcome([s EXCEPT ![unwrap(e)] = Some(<<key, value>>)],
                     <<"Ok", <<"NovelKey", unwrap(e)>> >>)
        ELSE Outcome(s, <<"Err", <<key, value>> >>)

\* insert that refuses a full map before try_insert has looked for the key.
insert_full_first(s, key, value) ==
    LET r == try_insert(s, key, value)
    IN  IF is_full(s) THEN Outcome(s, Panic)
        ELSE IF r.ret[1] = "Ok" THEN Outcome(r.st, r.ret[2])
        ELSE Outcome(r.st, Panic)

\* PetitMap::insert: try_insert(..).expect(..)
insert(s, key, value) ==
    LET r == try_insert(s, key, value)
    IN  IF r.ret[1] = "Ok" THEN Outcome(r.st, r.ret[2]) ELSE Outcome(r.st, Panic)

\* insert_at that stores the pair at index with no look for the key.
insert_at_no_find(s, key, value, index) ==
    IF index >= CAP THEN Outcome(s, Panic)
    ELSE Outcome([s EXCEPT ![index] = Some(<<key, value>>)], Ret(s[index]))

\* insert_at that drops what index held instead of returning it.
insert_at_drop_evicted(s, key, value, index) ==
    LET f == find(s, key)
    IN  IF index >= CAP THEN Outcome(s, Panic)
        ELSE IF is_some(f)
        THEN Outcome(swap_at(s, unwrap(f), index).st, Ret(None))
        ELSE Outcome([s EXCEPT ![index] = Some(<<key, value>>)], Ret(None))

\* PetitMap::insert_at: a present key has its slot swapped with index (the
\* value passed in is dropped); otherwise the pair is stored at index and
\* whatever index held is returned.
insert_at(s, key, value, index) ==
    LET f == find(s, key)
    IN  IF index > CAP THEN Outcome(s, Panic)
        ELSE IF is_some(f)
        THEN LET r == swap_at(s, unwrap(f), index)
             IN  IF panics(r) THEN r ELSE Outcome(r.st, Ret(None))
        ELSE IF panics(get_at(s, index)) THEN Outcome(s, Panic)
        ELSE IF get_at(s, index).ret[1] = "Some"
        THEN LET r == take_at(s, index)
             IN  Outcome([r.st EXCEPT ![index] = Some(<<key, value>>)], r.ret)
        ELSE Outcome([s EXCEPT ![index] = Some(<<key, value>>)], Ret(None))

\* PetitMap::remove: remove_at the slot find names.
remove(s, key) ==
    LET f == find(s, key)
    IN  IF is_some(f)
        THEN Outcome(remove_at(s, unwrap(f)).st, Ret(f))
        ELSE Outcome(s, Ret(None))

\* PetitMap::take: take_at(index).map(|pair| (index, pair))
take(s, key) ==
    LET f == find(s, key)
    IN  IF is_some(f)
        THEN LET r == take_at(s, unwrap(f))
             IN  IF r.ret[1] = "Some"
                 THEN Outcome(r.st, <<"Some", <<unwrap(f), r.ret[2]>> >>)
                 ELSE Outcome(r.st, Ret(None))
        ELSE Outcome(s, Ret(None))

\* PetitMap::swap: swap_at when both keys are found.
swap(s, key_a, key_b) ==
    LET a == find(s, key_a)
        b == find(s, key_b)
    IN  IF is_some(a) /\ is_some(b)
        THEN Outcome(swap_at(s, unwrap(a), unwrap(b)).st, Bool(TRUE))
        ELSE Outcome(s, Bool(FALSE))

\* The loop of Extend::extend over the pairs from the n-th on: each pair is
\* given to insert, whose panic ends the call.
RECURSIVE extend_from(_, _, _)
extend_from(s, pairs, n) ==
    IF n > Len(pairs) THEN Outcome(s, Unit)
    ELSE LET r == insert(s, pairs[n][1], pairs[n][2])
         IN  IF panics(r) THEN r ELSE extend_from(r.st, pairs, n + 1)

\* extend that stores every pair in the next empty slot with no look for
\* the key.
RECURSIVE extend_unchecked_from(_, _, _)
extend_unchecked_from(s, pairs, n) ==
    IF n > Len(pairs) THEN Outcome(s, Unit)
    ELSE LET e == next_empty_index(s, 0)
         IN  IF is_none(e) THEN Outcome(s, Panic)
             ELSE extend_unchecked_from([s EXCEPT ![unwrap(e)] = Some(pairs[n])],
                                        pairs, n + 1)

extend_unchecked(s, pairs) == extend_unchecked_from(s, pairs, 1)

\* Extend<(K, V)> for PetitMap: extend
extend(s, pairs) == extend_from(s, pairs, 1)

\* try_from_iter that goes on after a pair that did not fit: the pair is
\* left out and the pairs after it are inserted.
RECURSIVE try_from_iter_skipping(_, _, _)
try_from_iter_skipping(map, element_iter, n) ==
    IF n > Len(element_iter) THEN <<"Ok", map>>
    ELSE LET r == try_insert(map, element_iter[n][1], element_iter[n][2])
         IN  try_from_iter_skipping(r.st, element_iter, n + 1)

\* The loop of PetitMap::try_from_iter from the n-th pair on: each pair is
\* given to try_insert, and the first Err ends the call with the map as it
\* is and the pair that came back.
RECURSIVE try_from_iter_from(_, _, _)
try_from_iter_from(map, element_iter, n) ==
    IF n > Len(element_iter) THEN <<"Ok", map>>
    ELSE LET r == try_insert(map, element_iter[n][1], element_iter[n][2])
         IN  IF r.ret[1] = "Err" THEN <<"Err", <<map, r.ret[2]>> >>
             ELSE try_from_iter_from(r.st, element_iter, n + 1)

\* try_from_iter that ignores the Err of try_insert.
try_from_iter_no_return(element_iter) == try_from_iter_skipping(new, element_iter, 1)

\* PetitMap::try_from_iter
try_from_iter(element_iter) == try_from_iter_from(new, element_iter, 1)

\* The closures retain is called with (F: FnMut(&K, &mut V) -> bool):
\* <<"key_le", t>> answers k <= t, <<"val_eq", w>> answers v = w,
\* <<"val_set", w>> answers v = w and then writes w through its &mut V, and
\* <<"first", n>>, which counts its calls, answers true for the first n of
\* them.
Preds ==
    {<<"key_le", t>> : t \in 0 .. (CAP + 1)}
        \cup {<<"val_eq", w>> : w \in Vals}
        \cup {<<"val_set", w>> : w \in Vals}
        \cup {<<"first", n>> : n \in 1 .. CAP}

pred_answer(f, k, v) ==
    IF f[1] = "key_le" THEN k <= f[2]
    ELSE IF f[1] = "first" THEN f[2] > 0
    ELSE v = f[2]

pred_write(f, k, v) ==
    IF f[1] = "val_set" THEN f[2] ELSE v

\* The closure after one call: <<"first", n>> has one call fewer to answer
\* true to, the others keep no state.
pred_next(f) ==
    IF f[1] = "first" /\ f[2] > 0 THEN <<"first", f[2] - 1>> ELSE f

\* retain with its loop run from the last slot down to the first.
RECURSIVE retain_down(_, _, _)
retain_down(s, f, i) ==
    IF i < 0 THEN s
    ELSE IF is_some(s[i])
    THEN LET k == KeyOf(s[i])
             v == ValOf(s[i])
             written == [s EXCEPT ![i] = Some(<<k, pred_write(f, k, v)>>)]
         IN  IF pred_answer(f, k, v)
             THEN retain_down(remove_at(written, i).st, pred_next(f), i - 1)
             ELSE retain_down(written, pred_next(f), i - 1)
    ELSE retain_down(s, f, i - 1)

retain_descending(s, f) == Outcome(retain_down(s, f, CAP - 1), Unit)

\* The loop of PetitMap::retain from slot i on: an occupied slot is handed
\* to f, and removed when f answers true.
RECURSIVE retain_from(_, _, _)
retain_from(s, f, i) ==
    IF i >= capacity THEN s
    ELSE IF is_some(s[i])
    THEN LET k == KeyOf(s[i])
             v == ValOf(s[i])
             written == [s EXCEPT ![i] = Some(<<k, pred_write(f, k, v)>>)]
         IN  IF pred_answer(f, k, v)
             THEN retain_from(remove_at(written, i).st, pred_next(f), i + 1)
             ELSE retain_from(written, pred_next(f), i + 1)
    ELSE retain_from(s, f, i + 1)

retain(s, f) == Outcome(retain_from(s, f, 0), Unit)

\* PetitMap::get_at_mut hands out &mut K and &mut V of an occupied slot; the
\* caller writes key and value through them.
get_at_mut_write(s, index, key, value) ==
    IF index >= CAP THEN Outcome(s, Panic)
    ELSE IF is_some(s[index])
         THEN Outcome([s EXCEPT ![index] = Some(<<key, value>>)], Ret(s[index]))
         ELSE Outcome(s, Ret(None))

\* PetitMap::from_raw_array_unchecked: the array as given.
from_raw_array_unchecked(values) == values

\* An iterator's items, as the sequence it yields: <<"Seq", items>>.
Items(items) == <<"Seq", items>>

\* iter as a take_while: it stops at the first empty slot.
RECURSIVE iter_until_gap_from(_, _)
iter_until_gap_from(s, i) ==
    IF i >= CAP \/ is_none(s[i]) THEN <<>>
    ELSE <<unwrap(s[i])>> \o iter_until_gap_from(s, i + 1)

iter_until_gap(s) == iter_until_gap_from(s, 0)

\* self.storage.iter().filter_map(|e| e.as_ref()) from slot i on: the slots
\* in array order, the empty ones left out.
RECURSIVE iter_from(_, _)
iter_from(s, i) ==
    IF i >= CAP THEN <<>>
    ELSE IF is_some(s[i]) THEN <<unwrap(s[i])>> \o iter_from(s, i + 1)
    ELSE iter_from(s, i + 1)

\* PetitMap::iter
iter(s) == iter_from(s, 0)

\* PetitMap::keys: self.iter().map(|(k, _v)| k)
keys(s) == [n \in 1 .. Len(iter(s)) |-> iter(s)[n][1]]

\* PetitMap::values: self.iter().map(|(_k, v)| v)
values(s) == [n \in 1 .. Len(iter(s)) |-> iter(s)[n][2]]

\* self.storage.iter_mut().filter_map(|e| e.as_mut()).map(|(_k, v)| v) from
\* slot i on.
RECURSIVE values_mut_from(_, _)
values_mut_from(s, i) ==
    IF i >= CAP THEN <<>>
    ELSE IF is_some(s[i]) THEN <<ValOf(s[i])>> \o values_mut_from(s, i + 1)
    ELSE values_mut_from(s, i + 1)

\* PetitMap::values_mut: the values the yielded &mut V point at.
values_mut(s) == values_mut_from(s, 0)

\* PartialEq for PetitMap: for key in self.keys(), self.get(key) and
\* other.get(key) are compared; the keys of other are not gone through.
map_eq(self, other) ==
    \A n \in 1 .. Len(keys(self)) :
        get(self, keys(self)[n]) = get(other, keys(self)[n])

\* What a hash of the entries in iteration order would be given: the
\* number of entries, then each entry, whatever slot it is in.
RECURSIVE hash_entries_from(_, _)
hash_entries_from(s, i) ==
    IF i >= CAP THEN <<>>
    ELSE (IF is_some(s[i]) THEN <<KeyOf(s[i]), ValOf(s[i])>> ELSE <<>>)
            \o hash_entries_from(s, i + 1)

hash_of_entries(s) == <<len(s)>> \o hash_entries_from(s, 0)

\* What the derived Hash writes for the slots from i on: for each slot the
\* discriminant of the Option, 0 for None and 1 for Some, and after a 1
\* the key and the value.
RECURSIVE hash_slots_from(_, _)
hash_slots_from(s, i) ==
    IF i >= CAP THEN <<>>
    ELSE (IF is_some(s[i]) THEN <<1, KeyOf(s[i]), ValOf(s[i])>> ELSE <<0>>)
            \o hash_slots_from(s, i + 1)

\* #[derive(Hash)] on PetitMap: the one field, storage, is hashed, an array
\* as its length and then its elements in order.  This is the sequence of
\* values the Hasher is given.
hash_input(s) == <<CAP>> \o hash_slots_from(s, 0)

(***************************************************************************)
(* PetitSet (src/src/set.rs): its own array [Option<T>; CAP] of bare       *)
(* elements, Some(t) being <<t>>.                                          *)
(***************************************************************************)

\* PetitSet::new: every slot None.
set_new == [i \in Indices |-> None]

\* PetitSet::len
set_len(s) == Cardinality({i \in DOMAIN s : is_some(s[i])})

\* PetitSet::next_empty_index: the first None slot from cursor on.
set_next_empty_index(s, cursor) ==
    IF cursor >= CAP THEN None ELSE scan_empty(s, cursor)

\* The loop of PetitSet::find from index on.
RECURSIVE set_find_from(_, _, _)
set_find_from(s, element, index) ==
    IF index >= CAP THEN None
    ELSE IF is_some(s[index]) /\ unwrap(s[index]) = element THEN Some(index)
    ELSE set_find_from(s, element, index + 1)

set_find(s, element) == set_find_from(s, element, 0)

set_contains(s, element) == is_some(set_find(s, element))

\* try_insert of the set that asks for an empty slot before it looks for
\* the element.
set_try_insert_full_first(s, element) ==
    LET f == set_find(s, element)
        e == set_next_empty_index(s, 0)
    IN  IF is_none(e) THEN Outcome(s, <<"Err", element>>)
        ELSE IF is_some(f) THEN Outcome(s, <<"Ok", <<"Pair", unwrap(f), FALSE>> >>)
        ELSE Outcome([s EXCEPT ![unwrap(e)] = Some(element)],
                     <<"Ok", <<"Pair", unwrap(e), TRUE>> >>)

\* PetitSet::try_insert: (index, false) for an element already there,
\* (index, true) for one stored in the next empty slot, the element back in
\* the error when there is none.
set_try_insert(s, element) ==
    LET f == set_find(s, element)
        e == set_next_empty_index(s, 0)
    IN  IF is_some(f) THEN Outcome(s, <<"Ok", <<"Pair", unwrap(f), FALSE>> >>)
        ELSE IF is_some(e)
        THEN Outcome([s EXCEPT ![unwrap(e)] = Some(element)],
                     <<"Ok", <<"Pair", unwrap(e), TRUE>> >>)
        ELSE Outcome(s, <<"Err", element>>)

\* PetitSet::insert: try_insert(..).ok().expect(..)
set_insert(s, element) ==
    LET r == set_try_insert(s, element)
    IN  IF r.ret[1] = "Ok" THEN Outcome(r.st, r.ret[2]) ELSE Outcome(r.st, Panic)

\* The loop of PetitSet::extend over the elements from the n-th on: each is
\* given to insert, whose panic ends the call.
RECURSIVE set_extend_from(_, _, _)
set_extend_from(s, elements, n) ==
    IF n > Len(elements) THEN Outcome(s, Unit)
    ELSE LET r == set_insert(s, elements[n])
         IN  IF panics(r) THEN r ELSE set_extend_from(r.st, elements, n + 1)

\* PetitSet::extend
set_extend(s, elements) == set_extend_from(s, elements, 1)

\* try_extend that goes on after an element that did not fit and reports
\* the last one that did not.
RECURSIVE set_try_extend_going_on(_, _, _, _)
set_try_extend_going_on(s, elements, n, ret) ==
    IF n > Len(elements) THEN Outcome(s, ret)
    ELSE LET r == set_try_insert(s, elements[n])
         IN  set_try_extend_going_on(r.st, elements, n + 1,
                IF r.ret[1] = "Err" THEN r.ret ELSE ret)

set_try_extend_to_the_end(s, elements) ==
    set_try_extend_going_on(s, elements, 1, <<"Ok", Unit>>)

\* The loop of PetitSet::try_extend over the elements from the n-th on: the
\* ? operator returns the first Err of try_insert as it is.
RECURSIVE set_try_extend_from(_, _, _)
set_try_extend_from(s, elements, n) ==
    IF n > Len(elements) THEN Outcome(s, <<"Ok", Unit>>)
    ELSE LET r == set_try_insert(s, elements[n])
         IN  IF r.ret[1] = "Err" THEN r
             ELSE set_try_extend_from(r.st, elements, n + 1)

\* PetitSet::try_extend
set_try_extend(s, elements) == set_try_extend_from(s, elements, 1)

\* PetitSet::clear
set_clear(s) == Outcome([i \in Indices |-> None], Unit)

\* PetitSet::remove: the slot find names is set to None.
set_remove(s, element) ==
    LET f == set_find(s, element)
    IN  IF is_some(f)
        THEN Outcome([s EXCEPT ![unwrap(f)] = None], Ret(f))
        ELSE Outcome(s, Ret(None))

\* PetitSet::take_at: the slot is swapped with None, whatever it holds.
set_take_at(s, index) ==
    IF index > CAP THEN Outcome(s, Panic)
    ELSE IF index >= CAP THEN Outcome(s, Panic)
    ELSE Outcome([s EXCEPT ![index] = None], Ret(s[index]))

\* PetitSet::remove_at: take_at(index).is_some()
set_remove_at(s, index) ==
    LET r == set_take_at(s, index)
    IN  IF panics(r) THEN r ELSE Outcome(r.st, Bool(r.ret[1] = "Some"))

\* PetitSet::take: take_at(index).map(|removed| (index, removed))
set_take(s, element) ==
    LET f == set_find(s, element)
    IN  IF is_some(f)
        THEN LET r == set_take_at(s, unwrap(f))
             IN  IF r.ret[1] = "Some"
                 THEN Outcome(r.st, <<"Some", <<unwrap(f), r.ret[2]>> >>)
                 ELSE Outcome(r.st, Ret(None))
        ELSE Outcome(s, Ret(None))

\* PetitSet::get_at: no assert, the array access panics on index >= CAP.
set_get_at(s, index) ==
    IF index >= CAP THEN Outcome(s, Panic) ELSE Outcome(s, Ret(s[index]))

\* PetitSet::get_at_mut hands out &mut T of an occupied slot; the caller
\* writes element through it.
set_get_at_mut_write(s, index, element) ==
    IF index >= CAP THEN Outcome(s, Panic)
    ELSE IF is_some(s[index])
         THEN Outcome([s EXCEPT ![index] = Some(element)], Ret(s[index]))
         ELSE Outcome(s, Ret(None))

\* PetitSet::insert_at: None, with nothing changed, for an element already
\* in the set (before the array is indexed); otherwise the element is
\* swapped into the slot and what the slot held is returned.
set_insert_at(s, element, index) ==
    IF index > CAP THEN Outcome(s, Panic)
    ELSE IF set_contains(s, element) THEN Outcome(s, Ret(None))
    ELSE IF index >= CAP THEN Outcome(s, Panic)
    ELSE Outcome([s EXCEPT ![index] = Some(element)], Ret(s[index]))

\* PetitSet::iter: self.storage.iter().filter_map(|e| e.as_ref())
set_iter(s) == iter_from(s, 0)

\* eq of the set without its comparison of the two len().
set_eq_no_len(self, other) ==
    \A n \in 1 .. Len(set_iter(self)) :
        \E m \in 1 .. Len(set_iter(other)) : set_iter(self)[n] = set_iter(other)[m]

\* PartialEq for PetitSet: false when the two len() differ, and otherwise
\* whether every item of self.iter() equals some item of other.iter().
set_eq(self, other) ==
    IF set_len(self) # set_len(other) THEN FALSE
    ELSE \A n \in 1 .. Len(set_iter(self)) :
            \E m \in 1 .. Len(set_iter(other)) : set_iter(self)[n] = set_iter(other)[m]

\* The first loop of PetitSet::try_from_iter for a set of capacity cap:
\* init_data is the part of the array written so far, value_iter what the
\* fused iterator still holds.  A value that init_data contains is skipped;
\* any other, the None of an iterator that has ended included, is written
\* to the next slot.  The result is the array and the rest of the iterator.
RECURSIVE set_try_from_iter_fill(_, _, _)
set_try_from_iter_fill(cap, init_data, value_iter) ==
    IF Len(init_data) >= cap THEN <<init_data, value_iter>>
    ELSE LET value == IF value_iter = <<>> THEN None ELSE Some(Head(value_iter))
             rest == IF value_iter = <<>> THEN <<>> ELSE Tail(value_iter)
         IN  IF is_some(value) /\ \E m \in 1 .. Len(init_data) : init_data[m] = value
             THEN set_try_from_iter_fill(cap, init_data, rest)
             ELSE set_try_from_iter_fill(cap, Append(init_data, value), rest)

\* The second loop of PetitSet::try_from_iter: the first value left in the
\* iterator that the set does not contain ends the call with an Err.
RECURSIVE set_try_from_iter_rest(_, _)
set_try_from_iter_rest(set, value_iter) ==
    IF value_iter = <<>> THEN <<"Ok", set>>
    ELSE IF ~(\E i \in DOMAIN set : set[i] = Some(Head(value_iter)))
    THEN <<"Err", <<set, Head(value_iter)>> >>
    ELSE set_try_from_iter_rest(set, Tail(value_iter))

\* PetitSet::try_from_iter for PetitSet<T, cap>.  uninit_data[0], indexed to
\* get the pointer init_data starts from, is out of bounds in an array of
\* no slot: the call panics when cap = 0.
set_try_from_iter(cap, value_iter) ==
    IF cap = 0 THEN Panic
    ELSE LET filled == set_try_from_iter_fill(cap, <<>>, value_iter)
             set == [i \in 0 .. (cap - 1) |-> filled[1][i + 1]]
         IN  set_try_from_iter_rest(set, filled[2])

\* PetitSet::next_filled_index: the first occupied slot from cursor on.
set_next_filled_index(s, cursor) ==
    IF cursor >= CAP THEN None ELSE scan_filled(s, cursor)

\* What a call of next() leaves: the container, the cursor, and the item.
Step(st, cursor, ret) == [st |-> st, cursor |-> cursor, ret |-> ret]

\* next() that looks at the slot under the cursor only: an empty slot ends
\* the iteration.
iter_next_stops_at_gap(s, cursor) ==
    IF cursor < CAP /\ is_some(s[cursor])
    THEN Step(take_at(s, cursor).st, cursor + 1, take_at(s, cursor).ret)
    ELSE Step(s, CAP, Ret(None))

\* next() that returns the entry and leaves it in the map.
iter_next_leaving_entry(s, cursor) ==
    LET f == next_filled_index(s, cursor)
    IN  IF is_some(f)
        THEN Step(s, unwrap(f) + 1, Ret(s[unwrap(f)]))
        ELSE Step(s, CAP, Ret(None))

\* PetitMapIter::next: the next filled slot from the cursor on is taken and
\* the cursor put behind it; with none left the cursor goes to CAP.
iter_next(s, cursor) ==
    LET f == next_filled_index(s, cursor)
    IN  IF is_some(f)
        THEN LET index == unwrap(f)
             IN  Step(take_at(s, index).st, index + 1, take_at(s, index).ret)
        ELSE Step(s, CAP, Ret(None))

\* PetitSetIter::next
set_iter_next(s, cursor) ==
    LET f == set_next_filled_index(s, cursor)
    IN  IF is_some(f)
        THEN LET index == unwrap(f)
             IN  Step(set_take_at(s, index).st, index + 1, set_take_at(s, index).ret)
        ELSE Step(s, CAP, Ret(None))

(***************************************************************************)
(* Set algebra (src/src/set_algebra.rs).  self is a PetitSet<T, CAP>,      *)
(* other a PetitSet<T, OTHER_CAP>, and the result has a third capacity, so *)
(* the methods of PetitSet that the algebra calls are written here for an  *)
(* array of any length: a set of capacity n is a function on 0..n-1.       *)
(***************************************************************************)

\* The const parameter of a PetitSet<T, N> value.
cap_of(s) == Cardinality(DOMAIN s)

\* PetitSet::iter for any capacity.
RECURSIVE alg_iter_from(_, _)
alg_iter_from(s, i) ==
    IF i >= cap_of(s) THEN <<>>
    ELSE IF is_some(s[i]) THEN <<unwrap(s[i])>> \o alg_iter_from(s, i + 1)
    ELSE alg_iter_from(s, i + 1)

alg_iter(s) == alg_iter_from(s, 0)

\* PetitSet::find for any capacity.
RECURSIVE alg_find_from(_, _, _)
alg_find_from(s, element, index) ==
    IF index >= cap_of(s) THEN None
    ELSE IF is_some(s[index]) /\ unwrap(s[index]) = element THEN Some(index)
    ELSE alg_find_from(s, element, index + 1)

\* PetitSet::contains for any capacity.
alg_contains(s, element) == is_some(alg_find_from(s, element, 0))

\* PetitSet::next_empty_index(0) for any capacity.
RECURSIVE alg_scan_empty(_, _)
alg_scan_empty(s, i) ==
    IF i >= cap_of(s) THEN None
    ELSE IF is_none(s[i]) THEN Some(i)
    ELSE alg_scan_empty(s, i + 1)

\* PetitSet::insert for any capacity: the set it leaves, or Panic when the
\* element is new and no slot is empty.
alg_insert(s, element) ==
    LET e == alg_scan_empty(s, 0)
    IN  IF alg_contains(s, element) THEN Outcome(s, Unit)
        ELSE IF is_some(e) THEN Outcome([s EXCEPT ![unwrap(e)] = Some(element)], Unit)
        ELSE Outcome(s, Panic)

\* PetitSetIter::default(): an iterator over an empty set of capacity n.
\* The set it holds is all the algebra uses of it.
PetitSetIter_default(n) == [i \in 0 .. (n - 1) |-> None]

\* PetitSet::insert_unchecked: the element goes to the next empty slot with
\* no look at the elements held; nothing is stored when no slot is empty.
set_insert_unchecked(s, element) ==
    LET e == alg_scan_empty(s, 0)
    IN  IF is_none(e) THEN s ELSE [s EXCEPT ![unwrap(e)] = Some(element)]

\* PetitSetIter::into_set: the set the iterator holds.
into_set(iter_set) == iter_set

\* max_of
max_of(a, b) == IF a >= b THEN a ELSE b

\* A set as a returned value.
SetValue(s) == <<"Set", s>>

\* difference that keeps the elements of self that other holds.
RECURSIVE difference_kept_from(_, _, _, _)
difference_kept_from(self, other, n, set) ==
    IF n > Len(alg_iter(self)) THEN set
    ELSE LET s == alg_iter(self)[n]
         IN  IF alg_contains(other, s)
             THEN difference_kept_from(self, other, n + 1, set_insert_unchecked(set, s))
             ELSE difference_kept_from(self, other, n + 1, set)

difference_kept(self, other) ==
    difference_kept_from(self, other, 1, PetitSetIter_default(cap_of(self)))

\* The loop of difference from the n-th item of self.iter() on.
RECURSIVE difference_from(_, _, _, _)
difference_from(self, other, n, set) ==
    IF n > Len(alg_iter(self)) THEN set
    ELSE LET s == alg_iter(self)[n]
         IN  IF ~alg_contains(other, s)
             THEN difference_from(self, other, n + 1, set_insert_unchecked(set, s))
             ELSE difference_from(self, other, n + 1, set)

\* PetitSet::difference, a PetitSetIter<T, CAP>
difference(self, other) ==
    difference_from(self, other, 1, PetitSetIter_default(cap_of(self)))

\* The first loop of symmetric_difference: the items of self that other
\* does not contain.
RECURSIVE symmetric_difference_self_from(_, _, _, _)
symmetric_difference_self_from(self, other, n, set) ==
    IF n > Len(alg_iter(self)) THEN set
    ELSE LET s == alg_iter(self)[n]
         IN  IF ~alg_contains(other, s)
             THEN symmetric_difference_self_from(self, other, n + 1, set_insert_unchecked(set, s))
             ELSE symmetric_difference_self_from(self, other, n + 1, set)

\* The second loop of symmetric_difference: the items of other that self
\* does not contain.
RECURSIVE symmetric_difference_other_from(_, _, _, _)
symmetric_difference_other_from(self, other, n, set) ==
    IF n > Len(alg_iter(other)) THEN set
    ELSE LET o == alg_iter(other)[n]
         IN  IF ~alg_contains(self, o)
             THEN symmetric_difference_other_from(self, other, n + 1, set_insert_unchecked(set, o))
             ELSE symmetric_difference_other_from(self, other, n + 1, set)

\* symmetric_difference without its second loop.
symmetric_difference_self_only(self, other) ==
    symmetric_difference_self_from(self, other, 1,
        PetitSetIter_default(cap_of(self) + cap_of(other)))

\* symmetric_difference into a result of the capacity of the larger set.
symmetric_difference_max_of(self, other) ==
    symmetric_difference_other_from(self, other, 1,
        symmetric_difference_self_from(self, other, 1,
            PetitSetIter_default(max_of(cap_of(self), cap_of(other)))))

\* PetitSet::symmetric_difference, a PetitSetIter<T, CAP + OTHER_CAP>
symmetric_difference(self, other) ==
    symmetric_difference_other_from(self, other, 1,
        symmetric_difference_self_from(self, other, 1,
            PetitSetIter_default(cap_of(self) + cap_of(other))))

\* The loop of intersection from the n-th item of self.iter() on.
RECURSIVE intersection_from(_, _, _, _)
intersection_from(self, other, n, set) ==
    IF n > Len(alg_iter(self)) THEN set
    ELSE LET s == alg_iter(self)[n]
         IN  IF alg_contains(other, s)
             THEN intersection_from(self, other, n + 1, set_insert_unchecked(set, s))
             ELSE intersection_from(self, other, n + 1, set)

\* intersection that starts from a copy of self.
intersection_all_of_self(self, other) ==
    [i \in 0 .. (max_of(cap_of(self), cap_of(other)) - 1) |->
        IF i < Len(alg_iter(self)) THEN Some(alg_iter(self)[i + 1]) ELSE None]

\* PetitSet::intersection, a PetitSetIter<T, max_of(CAP, OTHER_CAP)>
intersection(self, other) ==
    intersection_from(self, other, 1,
        PetitSetIter_default(max_of(cap_of(self), cap_of(other))))

\* The first loop of union: every item of self, unchecked.
RECURSIVE union_self_from(_, _, _)
union_self_from(self, n, set) ==
    IF n > Len(alg_iter(self)) THEN set
    ELSE union_self_from(self, n + 1, set_insert_unchecked(set, alg_iter(self)[n]))

\* The second loop of union: every item of other through insert, which
\* panics when it finds neither the item nor an empty slot.
RECURSIVE union_other_from(_, _, _)
union_other_from(other, n, set) ==
    IF n > Len(alg_iter(other)) THEN Outcome(set, Unit)
    ELSE LET r == alg_insert(set, alg_iter(other)[n])
         IN  IF panics(r) THEN r ELSE union_other_from(other, n + 1, r.st)

\* The second loop of union with insert_unchecked in the place of insert.
RECURSIVE union_other_unchecked_from(_, _, _)
union_other_unchecked_from(other, n, set) ==
    IF n > Len(alg_iter(other)) THEN Outcome(set, Unit)
    ELSE union_other_unchecked_from(other, n + 1,
            set_insert_unchecked(set, alg_iter(other)[n]))

union_unchecked(self, other) ==
    union_other_unchecked_from(other, 1,
        union_self_from(self, 1, PetitSetIter_default(cap_of(self) + cap_of(other))))

\* PetitSet::union, a PetitSetIter<T, CAP + OTHER_CAP>: the set the iterator
\* holds, or the panic of an insert.
union(self, other) ==
    union_other_from(other, 1,
        union_self_from(self, 1, PetitSetIter_default(cap_of(self) + cap_of(other))))

\* The inner loop of the three predicates: some item of set.iter(), from the
\* m-th on, equals x.
RECURSIVE inner_match(_, _, _)
inner_match(x, set, m) ==
    IF m > Len(alg_iter(set)) THEN FALSE
    ELSE IF x = alg_iter(set)[m] THEN TRUE
    ELSE inner_match(x, set, m + 1)

\* The outer loop of is_disjoint from the n-th item of self.iter() on.
RECURSIVE is_disjoint_from(_, _, _)
is_disjoint_from(self, other, n) ==
    IF n > Len(alg_iter(self)) THEN TRUE
    ELSE IF inner_match(alg_iter(self)[n], other, 1) THEN FALSE
    ELSE is_disjoint_from(self, other, n + 1)

\* is_disjoint that looks at the first item of self only.
is_disjoint_first_only(self, other) ==
    \/ alg_iter(self) = <<>>
    \/ ~inner_match(alg_iter(self)[1], other, 1)

\* PetitSet::is_disjoint
is_disjoint(self, other) == is_disjoint_from(self, other, 1)

\* The outer loop of is_subset from the n-th item of self.iter() on.
RECURSIVE is_subset_from(_, _, _)
is_subset_from(self, other, n) ==
    IF n > Len(alg_iter(self)) THEN TRUE
    ELSE IF inner_match(alg_iter(self)[n], other, 1)
         THEN is_subset_from(self, other, n + 1)
         ELSE FALSE

\* is_subset that compares the numbers of elements.
is_subset_by_len(self, other) == Len(alg_iter(self)) <= Len(alg_iter(other))

\* PetitSet::is_subset
is_subset(self, other) == is_subset_from(self, other, 1)

\* The outer loop of is_superset from the n-th item of other.iter() on.
RECURSIVE is_superset_from(_, _, _)
is_superset_from(self, other, n) ==
    IF n > Len(alg_iter(other)) THEN TRUE
    ELSE IF inner_match(alg_iter(other)[n], self, 1)
         THEN is_superset_from(self, other, n + 1)
         ELSE FALSE

\* PetitSet::is_superset
is_superset(self, other) == is_superset_from(self, other, 1)

(***************************************************************************)
(* Serialization (src/src/serde.rs).  The serde sequence is a Sequence of  *)
(* elements, each an Option of an entry; how a format writes one element   *)
(* is the format's business.                                               *)
(***************************************************************************)

\* serialize that writes the occupied slots only.
serialize_without_gaps(s) ==
    SelectSeq([n \in 1 .. CAP |-> s[n - 1]], is_some)

\* Serialize for PetitMap: serialize_seq(Some(CAP)), then one element for
\* every slot from 0 to CAP - 1.
serialize(s) == [n \in 1 .. CAP |-> s[n - 1]]

\* The loop of visit_seq from slot i on: next_element() is None when the
\* sequence has no (i + 1)-th element.
RECURSIVE visit_seq_from(_, _, _)
visit_seq_from(map, access, i) ==
    IF i >= CAP THEN map
    ELSE IF i + 1 <= Len(access)
         THEN visit_seq_from([map EXCEPT ![i] = access[i + 1]], access, i + 1)
         ELSE map

\* visit_seq that puts the entries it reads in the lowest slots and leaves
\* out the empty elements.
visit_seq_closing_gaps(access) ==
    visit_seq_from(new, SelectSeq(access, is_some), 0)

\* PetitMapVisitor::visit_seq: Ok(map)
visit_seq(access) == visit_seq_from(new, access, 0)

\* The loop of PetitSetVisitor::visit_seq from slot i on.  The slot of a
\* set holds the element alone: the (e, ()) the code stores is the entry
\* of a set kept as a map to the unit value.
RECURSIVE set_visit_seq_from(_, _, _)
set_visit_seq_from(set, access, i) ==
    IF i >= CAP THEN set
    ELSE IF i + 1 <= Len(access)
         THEN set_visit_seq_from([set EXCEPT ![i] = access[i + 1]], access, i + 1)
         ELSE set

\* PetitSetVisitor::visit_seq: Ok(set)
set_visit_seq(access) == set_visit_seq_from(set_new, access, 0)

Panicked == last.ret[1] = "Panic"

\* The consuming iterator (PetitMapIter, PetitSetIter): the container was
\* moved into it, so it owns storage (elems for the set); cursor is its
\* field, origin the container as into_iter got it, and results what the
\* calls of next() returned so far.  NoIter: into_iter was not called.
NoIter == [kind |-> "none", cursor |-> 0, origin |-> new, results |-> <<>>]

NoIterator == it.kind = "none"

\* No call is recorded: the caller is about to make one.
Ready == [op |-> "ready", args |-> <<>>, ret |-> Unit]

IsReady == last.op = "ready"

\* One call: the container moves to the outcome's storage, and the call,
\* its arguments and its result are recorded.
Call(op, args, r) ==
    /\ IsReady
    /\ NoIterator
    /\ storage' = r.st
    /\ prev' = storage
    /\ last' = [op |-> op, args |-> args, ret |-> r.ret]
    /\ UNCHANGED <<elems, it>>

NoKeys == [k \in Keys |-> None]

Init ==
    /\ storage = new
    /\ prev = new
    /\ last = Ready
    /\ amap = NoKeys
    /\ elems = set_new
    /\ it = NoIter
    /\ fifo = <<>>

\* The caller takes the result of a call that returned.
Return ==
    /\ ~IsReady
    /\ ~Panicked
    /\ prev' = storage
    /\ last' = Ready
    /\ UNCHANGED <<storage, elems, amap, it, fifo>>

TryInsert(key, value) ==
    /\ Call("try_insert", <<key, value>>, try_insert(storage, key, value))
    /\ UNCHANGED <<amap, fifo>>

Insert(key, value) ==
    /\ Call("insert", <<key, value>>, insert(storage, key, value))
    /\ UNCHANGED <<amap, fifo>>

InsertAt(key, value, index) ==
    /\ Call("insert_at", <<key, value, index>>, insert_at(storage, key, value, index))
    /\ UNCHANGED <<amap, fifo>>

Remove(key) ==
    /\ Call("remove", <<key>>, remove(storage, key))
    /\ UNCHANGED <<amap, fifo>>

RemoveAt(index) ==
    /\ Call("remove_at", <<index>>, remove_at(storage, index))
    /\ UNCHANGED <<amap, fifo>>

Take(key) ==
    /\ Call("take", <<key>>, take(storage, key))
    /\ UNCHANGED <<amap, fifo>>

TakeAt(index) ==
    /\ Call("take_at", <<index>>, take_at(storage, index))
    /\ UNCHANGED <<amap, fifo>>

Swap(key_a, key_b) ==
    /\ Call("swap", <<key_a, key_b>>, swap(storage, key_a, key_b))
    /\ UNCHANGED <<amap, fifo>>

SwapAt(index_a, index_b) ==
    /\ Call("swap_at", <<index_a, index_b>>, swap_at(storage, index_a, index_b))
    /\ UNCHANGED <<amap, fifo>>

Retain(f) ==
    /\ Call("retain", <<f>>, retain(storage, f))
    /\ UNCHANGED <<amap, fifo>>

Clear ==
    /\ Call("clear", <<>>, clear(storage))
    /\ UNCHANGED <<amap, fifo>>

InsertUnchecked(key, value) ==
    /\ Call("insert_unchecked", <<key, value>>, insert_unchecked(storage, key, value))
    /\ UNCHANGED <<amap, fifo>>

GetAtMut(index, key, value) ==
    /\ Call("get_at_mut", <<index, key, value>>,
            get_at_mut_write(storage, index, key, value))
    /\ UNCHANGED <<amap, fifo>>

\* One call on the set: as Call, on elems.
SetCall(op, args, r) ==
    /\ IsReady
    /\ NoIterator
    /\ elems' = r.st
    /\ prev' = elems
    /\ last' = [op |-> op, args |-> args, ret |-> r.ret]
    /\ UNCHANGED <<storage, it>>

SetTryInsert(element) ==
    /\ SetCall("set.try_insert", <<element>>, set_try_insert(elems, element))
    /\ UNCHANGED <<amap, fifo>>

SetInsert(element) ==
    /\ SetCall("set.insert", <<element>>, set_insert(elems, element))
    /\ UNCHANGED <<amap, fifo>>

SetInsertAt(element, index) ==
    /\ SetCall("set.insert_at", <<element, index>>, set_insert_at(elems, element, index))
    /\ UNCHANGED <<amap, fifo>>

SetRemove(element) ==
    /\ SetCall("set.remove", <<element>>, set_remove(elems, element))
    /\ UNCHANGED <<amap, fifo>>

SetRemoveAt(index) ==
    /\ SetCall("set.remove_at", <<index>>, set_remove_at(elems, index))
    /\ UNCHANGED <<amap, fifo>>

SetTake(element) ==
    /\ SetCall("set.take", <<element>>, set_take(elems, element))
    /\ UNCHANGED <<amap, fifo>>

SetTakeAt(index) ==
    /\ SetCall("set.take_at", <<index>>, set_take_at(elems, index))
    /\ UNCHANGED <<amap, fifo>>

SetClear ==
    /\ SetCall("set.clear", <<>>, set_clear(elems))
    /\ UNCHANGED <<amap, fifo>>

\* The operations that look at the keys before they store one.
Next ==
    \/ \E key \in Keys, value \in Vals : TryInsert(key, value)
    \/ \E key \in Keys, value \in Vals : Insert(key, value)
    \/ \E key \in Keys, value \in Vals, index \in IndexArgs : InsertAt(key, value, index)
    \/ \E key \in Keys : Remove(key)
    \/ \E index \in IndexArgs : RemoveAt(index)
    \/ \E key \in Keys : Take(key)
    \/ \E index \in IndexArgs : TakeAt(index)
    \/ \E key_a \in Keys, key_b \in Keys : Swap(key_a, key_b)
    \/ \E index_a \in IndexArgs, index_b \in IndexArgs : SwapAt(index_a, index_b)
    \/ \E f \in Preds : Retain(f)
    \/ Clear
    \/ Return

Spec == Init /\ [][Next]_vars

(***************************************************************************)
(* The map beside a finite map: amap[k] is Some(v) when v is the value     *)
(* last stored for k by an insert or try_insert that succeeded, and None   *)
(* when k was never inserted or was removed since.                         *)
(***************************************************************************)
TryInsertTracked(key, value) ==
    LET r == try_insert(storage, key, value)
    IN  /\ Call("try_insert", <<key, value>>, r)
        /\ amap' = IF r.ret[1] = "Ok" THEN [amap EXCEPT ![key] = Some(value)] ELSE amap
        /\ UNCHANGED fifo

InsertTracked(key, value) ==
    LET r == insert(storage, key, value)
    IN  /\ Call("insert", <<key, value>>, r)
        /\ amap' = IF panics(r) THEN amap ELSE [amap EXCEPT ![key] = Some(value)]
        /\ UNCHANGED fifo

RemoveTracked(key) ==
    /\ Call("remove", <<key>>, remove(storage, key))
    /\ amap' = [amap EXCEPT ![key] = None]
    /\ UNCHANGED fifo

TakeTracked(key) ==
    /\ Call("take", <<key>>, take(storage, key))
    /\ amap' = [amap EXCEPT ![key] = None]
    /\ UNCHANGED fifo

ClearTracked ==
    /\ Call("clear", <<>>, clear(storage))
    /\ amap' = NoKeys
    /\ UNCHANGED fifo

NextFinite ==
    \/ \E key \in Keys, value \in Vals : TryInsertTracked(key, value)
    \/ \E key \in Keys, value \in Vals : InsertTracked(key, value)
    \/ \E key \in Keys : RemoveTracked(key)
    \/ \E key \in Keys : TakeTracked(key)
    \/ ClearTracked
    \/ Return

SpecFinite == Init /\ [][NextFinite]_vars

\* The operations of PetitSet.
NextSet ==
    \/ \E element \in Keys : SetTryInsert(element)
    \/ \E element \in Keys : SetInsert(element)
    \/ \E element \in Keys, index \in IndexArgs : SetInsertAt(element, index)
    \/ \E element \in Keys : SetRemove(element)
    \/ \E index \in IndexArgs : SetRemoveAt(index)
    \/ \E element \in Keys : SetTake(element)
    \/ \E index \in IndexArgs : SetTakeAt(index)
    \/ SetClear
    \/ Return

SpecSet == Init /\ [][NextSet]_vars

\* A map built by from_raw_array_unchecked from any array of slots.
InitRaw ==
    /\ \E array \in [Indices -> Slots] : storage = from_raw_array_unchecked(array)
    /\ prev = storage
    /\ last = Ready
    /\ amap = NoKeys
    /\ elems = set_new
    /\ it = NoIter
    /\ fifo = <<>>

\* Every public operation, the unchecked ones included.
NextUnchecked ==
    \/ Next
    \/ \E key \in Keys, value \in Vals : InsertUnchecked(key, value)
    \/ \E index \in IndexArgs, key \in Keys, value \in Vals : GetAtMut(index, key, value)

\* The iterators over &self (values_mut: over &mut self, with nothing
\* written through the references it yields): the container stays as it is
\* and the items are what the caller gets.
Iter ==
    /\ Call("iter", <<>>, Outcome(storage, Items(iter(storage))))
    /\ UNCHANGED <<amap, fifo>>

IterKeys ==
    /\ Call("keys", <<>>, Outcome(storage, Items(keys(storage))))
    /\ UNCHANGED <<amap, fifo>>

IterValues ==
    /\ Call("values", <<>>, Outcome(storage, Items(values(storage))))
    /\ UNCHANGED <<amap, fifo>>

IterValuesMut ==
    /\ Call("values_mut", <<>>, Outcome(storage, Items(values_mut(storage))))
    /\ UNCHANGED <<amap, fifo>>

SetIter ==
    /\ SetCall("set.iter", <<>>, Outcome(elems, Items(set_iter(elems))))
    /\ UNCHANGED <<amap, fifo>>

\* The operations of either container with its iterators: a run uses the
\* map while the set is as constructed, or the set while the map is.
NextIter ==
    \/ elems = set_new /\ (Next \/ Iter \/ IterKeys \/ IterValues \/ IterValuesMut)
    \/ storage = new /\ (NextSet \/ SetIter)

SpecIter == Init /\ [][NextIter]_vars

\* How many calls of next() a run makes on one iterator: enough to go past
\* the last item twice.
MaxNext == CAP + 2

\* IntoIterator::into_iter for PetitMap: the map is moved into the iterator.
IntoIter ==
    /\ IsReady
    /\ NoIterator
    /\ it' = [kind |-> "map", cursor |-> 0, origin |-> storage, results |-> <<>>]
    /\ UNCHANGED <<storage, elems, prev, last, amap, fifo>>

\* One call of PetitMapIter::next.
IterNext ==
    /\ it.kind = "map"
    /\ Len(it.results) < MaxNext
    /\ LET r == iter_next(storage, it.cursor)
       IN  /\ storage' = r.st
           /\ it' = [it EXCEPT !.cursor = r.cursor,
                               !.results = Append(it.results, r.ret)]
    /\ prev' = storage
    /\ UNCHANGED <<elems, last, amap, fifo>>

\* IntoIterator::into_iter for PetitSet.
SetIntoIter ==
    /\ IsReady
    /\ NoIterator
    /\ it' = [kind |-> "set", cursor |-> 0, origin |-> elems, results |-> <<>>]
    /\ UNCHANGED <<storage, elems, prev, last, amap, fifo>>

\* One call of PetitSetIter::next.
SetIterNext ==
    /\ it.kind = "set"
    /\ Len(it.results) < MaxNext
    /\ LET r == set_iter_next(elems, it.cursor)
       IN  /\ elems' = r.st
           /\ it' = [it EXCEPT !.cursor = r.cursor,
                               !.results = Append(it.results, r.ret)]
    /\ prev' = elems
    /\ UNCHANGED <<storage, last, amap, fifo>>

\* A container is filled and changed by its operations, then moved into
\* its consuming iterator, which is called until the run ends.
NextConsume ==
    \/ elems = set_new /\ (Next \/ IntoIter \/ IterNext)
    \/ storage = new /\ (NextSet \/ SetIntoIter \/ SetIterNext)

SpecConsume == Init /\ [][NextConsume]_vars

(***************************************************************************)
(* What the claims speak of, said without the code's own helpers.          *)
(***************************************************************************)

\* Some occupied slot of s holds key k.
HasKey(s, k) == \E i \in Indices : is_some(s[i]) /\ KeyOf(s[i]) = k

\* The lowest slot of s that holds key k.
SlotOf(s, k) ==
    CHOOSE i \in Indices :
        /\ is_some(s[i]) /\ KeyOf(s[i]) = k
        /\ \A j \in Indices : (j < i /\ is_some(s[j])) => KeyOf(s[j]) # k

NoEmptySlot(s) == \A i \in Indices : is_some(s[i])

\* No two occupied slots of s hold the same key.
UniqueKeys(s) ==
    \A i, j \in Indices :
        (i # j /\ is_some(s[i]) /\ is_some(s[j])) => KeyOf(s[i]) # KeyOf(s[j])

\* s and t differ at most in slot i.
SameBut(s, t, i) == \A j \in Indices : j # i => s[j] = t[j]

\* The operations of PetitMap that look for the key before they store one,
\* or store none.
CheckedOps ==
    {"try_insert", "insert", "insert_at", "remove", "remove_at", "take",
     "take_at", "swap", "swap_at", "retain", "clear"}

\* The whole public interface of both containers.  The two containers share
\* nothing, so a run uses one of them: the map while the set is as
\* constructed, the set while the map is.
NextPublic ==
    \/ elems = set_new /\ NextUnchecked
    \/ storage = new /\ NextSet

SpecPublic == InitRaw /\ [][NextPublic]_vars

(***************************************************************************)
(* The map beside the order its keys came in: fifo is the keys the map     *)
(* holds, the one inserted longest ago first.  A key that leaves the map   *)
(* leaves fifo, a key that enters it goes to the end, in the order extend  *)
(* was given it.                                                           *)
(***************************************************************************)

\* The iterators extend is called with: up to two pairs.
PairSeqs == {<<>>} \cup {<<e>> : e \in Entries} \cup {<<d, e>> : d, e \in Entries}

\* q without the keys that are not in st.
StillHeld(q, st) == SelectSeq(q, LAMBDA k : HasKey(st, k))

\* The keys of the sequence of pairs that are in st and not in q, each
\* once, in the order of the pairs.
RECURSIVE Entered(_, _, _)
Entered(q, st, pairs) ==
    IF pairs = <<>> THEN <<>>
    ELSE LET k == pairs[1][1]
             rest == Entered(q, st, Tail(pairs))
         IN  IF HasKey(st, k) /\ \A n \in 1 .. Len(q) : q[n] # k
             THEN <<k>> \o SelectSeq(rest, LAMBDA j : j # k)
             ELSE rest

\* One call with the order kept beside it: pairs is what the call inserts.
FifoCall(op, args, r, pairs) ==
    /\ Call(op, args, r)
    /\ fifo' = StillHeld(fifo, r.st) \o Entered(StillHeld(fifo, r.st), r.st, pairs)

TryInsertFifo(key, value) ==
    /\ FifoCall("try_insert", <<key, value>>, try_insert(storage, key, value),
                << <<key, value>> >>)
    /\ UNCHANGED amap

InsertFifo(key, value) ==
    /\ FifoCall("insert", <<key, value>>, insert(storage, key, value),
                << <<key, value>> >>)
    /\ UNCHANGED amap

ExtendFifo(pairs) ==
    /\ FifoCall("extend", <<pairs>>, extend(storage, pairs), pairs)
    /\ UNCHANGED amap

RemoveFifo(key) ==
    /\ FifoCall("remove", <<key>>, remove(storage, key), <<>>)
    /\ UNCHANGED amap

RemoveAtFifo(index) ==
    /\ FifoCall("remove_at", <<index>>, remove_at(storage, index), <<>>)
    /\ UNCHANGED amap

TakeFifo(key) ==
    /\ FifoCall("take", <<key>>, take(storage, key), <<>>)
    /\ UNCHANGED amap

TakeAtFifo(index) ==
    /\ FifoCall("take_at", <<index>>, take_at(storage, index), <<>>)
    /\ UNCHANGED amap

\* Insertions by insert, try_insert and extend only, and removals.
NextFifo ==
    \/ \E key \in Keys, value \in Vals : TryInsertFifo(key, value)
    \/ \E key \in Keys, value \in Vals : InsertFifo(key, value)
    \/ \E pairs \in PairSeqs : ExtendFifo(pairs)
    \/ \E key \in Keys : RemoveFifo(key)
    \/ \E index \in IndexArgs : RemoveAtFifo(index)
    \/ \E key \in Keys : TakeFifo(key)
    \/ \E index \in IndexArgs : TakeAtFifo(index)
    \/ Return

SpecFifo == Init /\ [][NextFifo]_vars

(***************************************************************************)
(* The methods that take an index, with the reads among them.              *)
(***************************************************************************)
GetAt(index) ==
    /\ Call("get_at", <<index>>, get_at(storage, index))
    /\ UNCHANGED <<amap, fifo>>

SetGetAt(index) ==
    /\ SetCall("set.get_at", <<index>>, set_get_at(elems, index))
    /\ UNCHANGED <<amap, fifo>>

SetGetAtMut(index, element) ==
    /\ SetCall("set.get_at_mut", <<index, element>>,
               set_get_at_mut_write(elems, index, element))
    /\ UNCHANGED <<amap, fifo>>

NextIndex ==
    \/ /\ elems = set_new
       /\ \/ Next
          \/ \E index \in IndexArgs : GetAt(index)
          \/ \E index \in IndexArgs, key \in Keys, value \in Vals :
                GetAtMut(index, key, value)
    \/ /\ storage = new
       /\ \/ NextSet
          \/ \E index \in IndexArgs : SetGetAt(index)
          \/ \E index \in IndexArgs, element \in Keys : SetGetAtMut(index, element)

SpecIndex == Init /\ [][NextIndex]_vars

(***************************************************************************)
(* The constructors from an iterator: they make a container of their own,  *)
(* which is in the value they return, and touch no other.                  *)
(***************************************************************************)

\* The longest iterator a constructor is given: long enough to overflow
\* and to go on after the pair that did not fit.
MaxItems == CAP + 2

\* The iterators of pairs.
PairIters == UNION {[1 .. n -> Entries] : n \in 0 .. MaxItems}

TryFromIter(element_iter) ==
    /\ Call("try_from_iter", <<element_iter>>,
            Outcome(storage, try_from_iter(element_iter)))
    /\ UNCHANGED <<amap, fifo>>

\* The iterators of elements.
ElementIters == UNION {[1 .. n -> Keys] : n \in 0 .. MaxItems}

\* PetitSet::<T, cap>::try_from_iter, for the capacities from 0 to CAP.
SetTryFromIter(cap, value_iter) ==
    /\ SetCall("set.try_from_iter", <<cap, value_iter>>,
               Outcome(elems, set_try_from_iter(cap, value_iter)))
    /\ UNCHANGED <<amap, fifo>>

NextSetFromIter ==
    \/ /\ IsReady
       /\ \E cap \in 0 .. CAP, value_iter \in ElementIters :
                SetTryFromIter(cap, value_iter)
    \/ Return

SpecSetFromIter == Init /\ [][NextSetFromIter]_vars

NextFromIter ==
    \/ IsReady /\ \E element_iter \in PairIters : TryFromIter(element_iter)
    \/ Return

SpecFromIter == Init /\ [][NextFromIter]_vars

(***************************************************************************)
(* Set algebra: two sets that hold no element twice, one of capacity CAP   *)
(* and one of capacity OTHER_CAP, in either order.                         *)
(***************************************************************************)

\* The capacity of the second set: another one than CAP.
OTHER_CAP == CAP - 1

\* No two occupied slots of a set of any capacity hold the same element.
NoElementTwice(s) ==
    \A i, j \in DOMAIN s : (i # j /\ is_some(s[i])) => s[i] # s[j]

\* The sets of capacity n.
SetsOfCap(n) ==
    {m \in [0 .. (n - 1) -> {None} \cup {Some(e) : e \in Keys}] : NoElementTwice(m)}

\* self and other: the capacities CAP and OTHER_CAP, either way round.
SetPairs ==
    (SetsOfCap(CAP) \X SetsOfCap(OTHER_CAP)) \cup (SetsOfCap(OTHER_CAP) \X SetsOfCap(CAP))

Difference(self, other) ==
    /\ SetCall("difference", <<self, other>>,
               Outcome(elems, SetValue(into_set(difference(self, other)))))
    /\ UNCHANGED <<amap, fifo>>

SymmetricDifference(self, other) ==
    /\ SetCall("symmetric_difference", <<self, other>>,
               Outcome(elems, SetValue(into_set(symmetric_difference(self, other)))))
    /\ UNCHANGED <<amap, fifo>>

Intersection(self, other) ==
    /\ SetCall("intersection", <<self, other>>,
               Outcome(elems, SetValue(into_set(intersection(self, other)))))
    /\ UNCHANGED <<amap, fifo>>

Union(self, other) ==
    /\ LET r == union(self, other)
       IN  SetCall("union", <<self, other>>,
                   Outcome(elems, IF panics(r) THEN Panic ELSE SetValue(into_set(r.st))))
    /\ UNCHANGED <<amap, fifo>>

\* The operations whose result is no larger than self or other.
NextAlgebra ==
    \/ /\ IsReady
       /\ \E pair \in SetPairs :
            \/ Difference(pair[1], pair[2])
            \/ Intersection(pair[1], pair[2])
    \/ Return

SpecAlgebra == Init /\ [][NextAlgebra]_vars

\* The operations whose result has the capacity CAP + OTHER_CAP.
NextSum ==
    \/ /\ IsReady
       /\ \E pair \in SetPairs :
            \/ SymmetricDifference(pair[1], pair[2])
            \/ Union(pair[1], pair[2])
    \/ Return

SpecSum == Init /\ [][NextSum]_vars

\* The four operations that build their result with insert_unchecked.
NextBuilt == NextAlgebra \/ NextSum

SpecBuilt == Init /\ [][NextBuilt]_vars

\* The predicates are also asked of a set and itself.
PredicatePairs == SetPairs \cup {<<a, a>> : a \in SetsOfCap(CAP)}

IsDisjoint(self, other) ==
    /\ SetCall("is_disjoint", <<self, other>>, Outcome(elems, Bool(is_disjoint(self, other))))
    /\ UNCHANGED <<amap, fifo>>

IsSubset(self, other) ==
    /\ SetCall("is_subset", <<self, other>>, Outcome(elems, Bool(is_subset(self, other))))
    /\ UNCHANGED <<amap, fifo>>

IsSuperset(self, other) ==
    /\ SetCall("is_superset", <<self, other>>, Outcome(elems, Bool(is_superset(self, other))))
    /\ UNCHANGED <<amap, fifo>>

NextPredicates ==
    \/ /\ IsReady
       /\ \E pair \in PredicatePairs :
            \/ IsDisjoint(pair[1], pair[2])
            \/ IsSubset(pair[1], pair[2])
            \/ IsSuperset(pair[1], pair[2])
    \/ Return

SpecPredicates == Init /\ [][NextPredicates]_vars

(***************************************************************************)
(* Serialization round trip: the map is built and thinned by insert and    *)
(* remove, written as a sequence and read back; the map read back takes    *)
(* the place of the original, which prev keeps, and the sequence is the    *)
(* returned value.                                                         *)
(***************************************************************************)

SerdeRoundTrip ==
    /\ Call("serde", <<>>,
            Outcome(visit_seq(serialize(storage)), Items(serialize(storage))))
    /\ UNCHANGED <<amap, fifo>>

NextSerde ==
    \/ \E key \in Keys, value \in Vals : Insert(key, value)
    \/ \E key \in Keys : Remove(key)
    \/ SerdeRoundTrip
    \/ Return

SpecSerde == Init /\ [][NextSerde]_vars

(***************************************************************************)
(* The checked operations only, from an empty map or an empty set: the     *)
(* operations of Next and NextSet, extend, try_extend, and try_from_iter,  *)
(* whose map, returned in Ok or beside the pair that did not fit, is the   *)
(* map the run goes on with.                                               *)
(***************************************************************************)

Extend(pairs) ==
    /\ Call("extend", <<pairs>>, extend(storage, pairs))
    /\ UNCHANGED <<amap, fifo>>

TryFromIterInto(element_iter) ==
    /\ LET r == try_from_iter(element_iter)
       IN  Call("try_from_iter", <<element_iter>>,
                Outcome(IF r[1] = "Ok" THEN r[2] ELSE r[2][1], r))
    /\ UNCHANGED <<amap, fifo>>

\* The iterators of pairs of these runs: up to two pairs, and one value,
\* since it is the keys that are looked at.
OneValue == CHOOSE v \in Vals : \A w \in Vals : v <= w

KeyPairSeqs ==
    {<<>>} \cup {<< <<k, OneValue>> >> : k \in Keys}
           \cup {<< <<j, OneValue>>, <<k, OneValue>> >> : j, k \in Keys}

\* The iterators the set is extended with in these runs: up to two elements.
ElementSeqs == UNION {[1 .. n -> Keys] : n \in 0 .. 2}

SetExtend(elements) ==
    /\ SetCall("set.extend", <<elements>>, set_extend(elems, elements))
    /\ UNCHANGED <<amap, fifo>>

SetTryExtend(elements) ==
    /\ SetCall("set.try_extend", <<elements>>, set_try_extend(elems, elements))
    /\ UNCHANGED <<amap, fifo>>

NextChecked ==
    \/ /\ elems = set_new
       /\ \/ Next
          \/ \E pairs \in KeyPairSeqs : Extend(pairs)
          \/ \E element_iter \in KeyPairSeqs : TryFromIterInto(element_iter)
    \/ /\ storage = new
       /\ \/ NextSet
          \/ \E elements \in ElementSeqs : SetExtend(elements)
          \/ \E elements \in ElementSeqs : SetTryExtend(elements)

SpecChecked == Init /\ [][NextChecked]_vars

(***************************************************************************)
(* Deserialization of any sequence a format may hand to visit_seq: up to   *)
(* CAP + 1 elements, each an entry (an element, for the set) or nothing,   *)
(* with no regard to the keys.  The container read is a new one, in the    *)
(* value returned.                                                         *)
(***************************************************************************)

\* The longest sequence read: one element more than the container holds.
MaxEncoded == CAP + 1

EncodedMaps == UNION {[1 .. n -> Slots] : n \in 0 .. MaxEncoded}

EncodedSets ==
    UNION {[1 .. n -> {None} \cup {Some(e) : e \in Keys}] : n \in 0 .. MaxEncoded}

Deserialize(access) ==
    /\ Call("deserialize", <<access>>, Outcome(storage, <<"Ok", visit_seq(access)>>))
    /\ UNCHANGED <<amap, fifo>>

SetDeserialize(access) ==
    /\ SetCall("set.deserialize", <<access>>,
               Outcome(elems, <<"Ok", set_visit_seq(access)>>))
    /\ UNCHANGED <<amap, fifo>>

NextDeserialize ==
    \/ /\ IsReady
       /\ \/ \E access \in EncodedMaps : Deserialize(access)
          \/ \E access \in EncodedSets : SetDeserialize(access)
    \/ Return

SpecDeserialize == Init /\ [][NextDeserialize]_vars

(***************************************************************************)
(* try_extend on the sets that insert and remove build, with iterators of  *)
(* up to three elements (one that fits, one that does not, one after it)   *)
(* over one element more than Keys has: a full set then lacks two of them. *)
(***************************************************************************)

MoreKeys == 1 .. (CAP + 2)

LongElementSeqs == UNION {[1 .. n -> MoreKeys] : n \in 0 .. 3}

NextTryExtend ==
    \/ \E element \in Keys : SetInsert(element)
    \/ \E element \in Keys : SetRemove(element)
    \/ \E elements \in LongElementSeqs : SetTryExtend(elements)
    \/ Return

SpecTryExtend == Init /\ [][NextTryExtend]_vars

(***************************************************************************)
(* Equality: the container of the run is compared with another one of the  *)
(* same capacity, any that the checked operations can build.               *)
(***************************************************************************)

\* The maps the checked operations can build: no key twice.
Maps == {m \in [Indices -> Slots] : UniqueKeys(m)}

\* No two occupied slots of the set s hold the same element.
UniqueElements(s) ==
    \A i, j \in Indices : (i # j /\ is_some(s[i])) => s[i] # s[j]

\* The sets the checked operations can build: no element twice.
Sets ==
    {m \in [Indices -> {None} \cup {Some(e) : e \in Keys}] : UniqueElements(m)}

\* self == other on maps.
MapEq(other) ==
    /\ Call("eq", <<other>>, Outcome(storage, Bool(map_eq(storage, other))))
    /\ UNCHANGED <<amap, fifo>>

\* self == other on sets.
SetEq(other) ==
    /\ SetCall("set.eq", <<other>>, Outcome(elems, Bool(set_eq(elems, other))))
    /\ UNCHANGED <<amap, fifo>>

NextMapEq == Next \/ \E other \in Maps : MapEq(other)

SpecMapEq == Init /\ [][NextMapEq]_vars

NextSetEq == NextSet \/ \E other \in Sets : SetEq(other)

SpecSetEq == Init /\ [][NextSetEq]_vars

(***************************************************************************)
(* Hashing: the map of the run, built by insert, insert_at and remove with *)
(* one value, is hashed beside another map of up to two entries, and the   *)
(* two are compared with ==.                                               *)
(***************************************************************************)

SmallMaps == {m \in Maps : len(m) <= 2}

\* calculate_hash(&self), calculate_hash(&other) and self == other.
HashBeside(other) ==
    /\ Call("hash", <<other>>,
            Outcome(storage, <<"Hashes", hash_input(storage), hash_input(other),
                               map_eq(storage, other)>>))
    /\ UNCHANGED <<amap, fifo>>

NextHash ==
    \/ \E key \in Keys : Insert(key, OneValue)
    \/ \E key \in Keys, index \in IndexArgs : InsertAt(key, OneValue, index)
    \/ \E key \in Keys : Remove(key)
    \/ \E other \in SmallMaps : HashBeside(other)
    \/ Return

SpecHash == Init /\ [][NextHash]_vars

(***************************************************************************)
(* C1.  A PetitMap or a PetitSet of capacity CAP never reports more than   *)
(* CAP elements: after any sequence of public operations, the unchecked    *)
(* ones included, len() <= CAP.                                            *)
(***************************************************************************)
C1_LenAtMostCap == len(storage) <= CAP /\ set_len(elems) <= CAP

\* A full map has just turned a new key away.
C1_Witness ==
    /\ last.op = "try_insert"
    /\ last.ret[1] = "Err"
    /\ len(storage) = CAP

(***************************************************************************)
(* C2.  As claimed: in every state reachable through the public API of     *)
(* PetitMap, insert_unchecked, from_raw_array_unchecked and get_at_mut     *)
(* included, no two occupied slots hold equal keys.                        *)
(***************************************************************************)
C2_UniqueInEveryPublicState == UniqueKeys(storage)

\* get_at_mut was used to write the value only: the key written is the key
\* the slot held.
ValueWriteOnly ==
    /\ last.op = "get_at_mut"
    /\ last.ret[1] = "Some" => last.args[2] = last.ret[2][1]

(***************************************************************************)
(* C2, amended.  try_insert, insert, insert_at, remove, remove_at, take,   *)
(* take_at, swap, swap_at, retain, clear and a write through get_at_mut    *)
(* that leaves the key as it is keep the keys distinct: called on a map    *)
(* whose keys are pairwise distinct, each leaves a map whose keys are      *)
(* pairwise distinct.  insert_unchecked, from_raw_array_unchecked and a    *)
(* write to a key through get_at_mut do not.                               *)
(***************************************************************************)
C2_CheckedCallsKeepKeysUnique ==
    ((last.op \in CheckedOps \/ ValueWriteOnly) /\ UniqueKeys(prev))
        => UniqueKeys(storage)

\* A full map of distinct keys was asked to insert_at a key it holds.
C2_Witness ==
    /\ last.op = "insert_at"
    /\ ~Panicked
    /\ UniqueKeys(prev)
    /\ NoEmptySlot(prev)
    /\ HasKey(prev, last.args[1])
    /\ UniqueKeys(storage)

(***************************************************************************)
(* C3.  try_insert(key, value) returns Err(CapacityError((key, value)))    *)
(* exactly when key is not present and no slot is empty; the error carries *)
(* the pair it was given and the call leaves every slot as it was.         *)
(***************************************************************************)
C3_TryInsertErrIffFullAndNew ==
    last.op = "try_insert" =>
        LET key == last.args[1]
            value == last.args[2]
        IN  /\ last.ret[1] = "Err" <=> (~HasKey(prev, key) /\ NoEmptySlot(prev))
            /\ last.ret[1] = "Err" => (last.ret[2] = <<key, value>> /\ storage = prev)
            /\ last.ret[1] \in {"Ok", "Err"}

\* A full map has turned a new pair away and is as it was.
C3_Witness ==
    /\ last.op = "try_insert"
    /\ last.ret[1] = "Err"
    /\ NoEmptySlot(prev)
    /\ ~HasKey(prev, last.args[1])
    /\ storage = prev

(***************************************************************************)
(* C4.  insert(key, value) panics exactly in the states where              *)
(* try_insert(key, value) would return a CapacityError, that is when the   *)
(* map is full and does not hold key; in every other state it returns what *)
(* try_insert returns inside its Ok and leaves the storage try_insert      *)
(* leaves.                                                                 *)
(***************************************************************************)
C4_InsertPanicsIffTryInsertErrs ==
    last.op = "insert" =>
        LET key == last.args[1]
            value == last.args[2]
            r == try_insert(prev, key, value)
        IN  /\ Panicked <=> r.ret[1] = "Err"
            /\ Panicked <=> (NoEmptySlot(prev) /\ ~HasKey(prev, key))
            /\ Panicked => storage = prev
            /\ ~Panicked => (r.ret = <<"Ok", last.ret>> /\ r.st = storage)

\* insert has panicked on a full map, which is left as it was.
C4_Witness ==
    /\ last.op = "insert"
    /\ Panicked
    /\ NoEmptySlot(storage)
    /\ ~HasKey(storage, last.args[1])

(***************************************************************************)
(* C5.  try_insert(key, value) with key present at index i puts value in   *)
(* slot i, returns ExtantKey(previous value, i) and changes nothing else:  *)
(* the key stays at i, len() and every other slot are as before; a full    *)
(* map takes it too.                                                       *)
(***************************************************************************)
C5_TryInsertOverwritesInPlace ==
    (last.op = "try_insert" /\ HasKey(prev, last.args[1])) =>
        LET key == last.args[1]
            value == last.args[2]
            i == SlotOf(prev, key)
        IN  /\ last.ret = <<"Ok", <<"ExtantKey", ValOf(prev[i]), i>> >>
            /\ storage[i] = Some(<<key, value>>)
            /\ SameBut(storage, prev, i)
            /\ len(storage) = len(prev)
            /\ find(storage, key) = Some(i)

\* A full map has taken a new value for a key it held at slot 1.
C5_Witness ==
    /\ last.op = "try_insert"
    /\ NoEmptySlot(prev)
    /\ HasKey(prev, last.args[1])
    /\ SlotOf(prev, last.args[1]) = 1
    /\ ValOf(prev[1]) # last.args[2]
    /\ ValOf(storage[1]) = last.args[2]

\* The lowest empty slot of s.
LowestEmpty(s) ==
    CHOOSE i \in Indices : is_none(s[i]) /\ \A j \in Indices : j < i => is_some(s[j])

(***************************************************************************)
(* C6.  try_insert(key, value) with key not present and some slot empty    *)
(* stores the pair in the lowest empty slot i, returns NovelKey(i), raises *)
(* len() by one and leaves every other slot as it was: a gap left by a     *)
(* removal is used before any higher empty slot.                           *)
(***************************************************************************)
C6_TryInsertTakesLowestEmptySlot ==
    (last.op = "try_insert" /\ ~HasKey(prev, last.args[1]) /\ ~NoEmptySlot(prev)) =>
        LET key == last.args[1]
            value == last.args[2]
            i == LowestEmpty(prev)
        IN  /\ last.ret = <<"Ok", <<"NovelKey", i>> >>
            /\ storage[i] = Some(<<key, value>>)
            /\ SameBut(storage, prev, i)
            /\ len(storage) = len(prev) + 1

\* The map had a gap at slot 0, an entry at slot 1 and an empty slot 2, and
\* the new key went into the gap.
C6_Witness ==
    /\ last.op = "try_insert"
    /\ is_none(prev[0]) /\ is_some(prev[1]) /\ is_none(prev[2])
    /\ is_some(storage[0]) /\ KeyOf(storage[0]) = last.args[1]
    /\ is_none(storage[2])

(***************************************************************************)
(* C7.  remove, remove_at, take and take_at change at most the slot they   *)
(* aim at: after the entry at index i is removed slot i is empty and every *)
(* other slot holds what it held (nothing is shifted); when the key is     *)
(* absent or the slot is already empty the call returns None or false and  *)
(* no slot changes.                                                        *)
(***************************************************************************)
C7_RemovalTouchesOneSlot ==
    /\ (last.op \in {"remove", "take"}) =>
            LET key == last.args[1]
            IN  IF HasKey(prev, key)
                THEN LET i == SlotOf(prev, key)
                     IN  /\ is_none(storage[i])
                         /\ SameBut(storage, prev, i)
                         /\ last.ret = IF last.op = "remove"
                                       THEN <<"Some", i>>
                                       ELSE <<"Some", <<i, unwrap(prev[i])>> >>
                ELSE storage = prev /\ last.ret = <<"None">>
    /\ (last.op \in {"remove_at", "take_at"} /\ last.args[1] \in Indices) =>
            LET i == last.args[1]
            IN  /\ is_none(storage[i])
                /\ SameBut(storage, prev, i)
                /\ is_none(prev[i]) => storage = prev
                /\ last.ret = IF last.op = "remove_at"
                              THEN Bool(is_some(prev[i]))
                              ELSE Ret(prev[i])

\* The first entry of a full map was removed by key and the entries after
\* it are where they were.
C7_Witness ==
    /\ last.op = "remove"
    /\ NoEmptySlot(prev)
    /\ last.ret = <<"Some", 0>>
    /\ is_none(storage[0])
    /\ \A j \in Indices : j > 0 => (is_some(storage[j]) /\ storage[j] = prev[j])

(***************************************************************************)
(* C8.  Under insert, try_insert, remove, take and clear PetitMap behaves  *)
(* as a finite map: get(&k) is the value last stored for k by an insert or *)
(* try_insert that succeeded since k was last removed; find, get and       *)
(* contains_key report absence for a key never inserted or removed since;  *)
(* and take(&k) returns (find(&k), (k, get(&k))) as they were just before  *)
(* the call.                                                               *)
(***************************************************************************)
C8_BehavesAsFiniteMap ==
    /\ \A k \in Keys :
            /\ get(storage, k) = amap[k]
            /\ contains_key(storage, k) <=> is_some(amap[k])
            /\ is_none(find(storage, k)) <=> is_none(amap[k])
    /\ last.op = "take" =>
            LET key == last.args[1]
            IN  last.ret = IF is_some(find(prev, key))
                           THEN <<"Some", <<unwrap(find(prev, key)),
                                            <<key, unwrap(get(prev, key))>> >> >>
                           ELSE <<"None">>

\* take has returned slot 1 and the value 12, stored over an earlier 11 or
\* not, for a key that is now absent while another key is still held.
C8_Witness ==
    /\ last.op = "take"
    /\ last.ret = <<"Some", <<1, <<last.args[1], 12>> >> >>
    /\ is_none(find(storage, last.args[1]))
    /\ is_none(amap[last.args[1]])
    /\ \E k \in Keys : amap[k] = Some(11) /\ get(storage, k) = Some(11)

\* Some occupied slot of the set s holds element e.
SetHas(s, e) == \E i \in Indices : s[i] = Some(e)

(***************************************************************************)
(* C9.  PetitSet::try_insert(element) on an element already in the set     *)
(* succeeds, even when the set is full, reports the index the element is   *)
(* at with the flag false, and leaves len() and every slot as they were;   *)
(* on a new element that it stores it reports the slot used with the flag  *)
(* true.                                                                   *)
(***************************************************************************)
C9_SetTryInsertReportsIndexAndNovelty ==
    last.op = "set.try_insert" =>
        LET element == last.args[1]
        IN  IF SetHas(prev, element)
            THEN /\ \E i \in Indices :
                        /\ prev[i] = Some(element)
                        /\ last.ret = <<"Ok", <<"Pair", i, FALSE>> >>
                 /\ elems = prev
                 /\ set_len(elems) = set_len(prev)
            ELSE last.ret[1] = "Ok" =>
                    LET i == last.ret[2][2]
                    IN  /\ last.ret[2] = <<"Pair", i, TRUE>>
                        /\ i \in Indices
                        /\ is_none(prev[i])
                        /\ elems[i] = Some(element)
                        /\ SameBut(elems, prev, i)

\* A full set was given an element it held at slot 1.
C9_Witness ==
    /\ last.op = "set.try_insert"
    /\ NoEmptySlot(prev)
    /\ last.ret = <<"Ok", <<"Pair", 1, FALSE>> >>
    /\ elems = prev

(***************************************************************************)
(* C10.  PetitMap::insert_at(key, value, index) with key present at        *)
(* old_index moves that entry to index and what index held, an entry or    *)
(* nothing, to old_index; it returns None, makes no second copy of the key *)
(* and leaves len() and every other slot as they were.                     *)
(***************************************************************************)
C10_InsertAtRelocatesPresentKey ==
    (/\ last.op = "insert_at"
     /\ last.args[3] \in Indices
     /\ HasKey(prev, last.args[1])) =>
        LET key == last.args[1]
            index == last.args[3]
            old_index == SlotOf(prev, key)
        IN  /\ storage[index] = prev[old_index]
            /\ storage[old_index] = prev[index]
            /\ \A j \in Indices \ {index, old_index} : storage[j] = prev[j]
            /\ last.ret = <<"None">>
            /\ Cardinality({j \in Indices : is_some(storage[j]) /\ KeyOf(storage[j]) = key}) = 1
            /\ len(storage) = len(prev)

\* The key was at slot 0 and was sent to slot 2, which held another entry:
\* the two entries have changed places.
C10_Witness ==
    /\ last.op = "insert_at"
    /\ last.args[3] = 2
    /\ HasKey(prev, last.args[1])
    /\ SlotOf(prev, last.args[1]) = 0
    /\ is_some(prev[2])
    /\ storage[2] = prev[0]
    /\ storage[0] = prev[2]

(***************************************************************************)
(* C11.  PetitMap::insert_at(key, value, index) with key not present       *)
(* stores (key, value) at index; an entry that index held leaves the map   *)
(* and is returned as Some((k, v)), an empty index gives None; every other *)
(* slot is as it was.                                                      *)
(***************************************************************************)
C11_InsertAtStoresNewKeyAndEvicts ==
    (/\ last.op = "insert_at"
     /\ last.args[3] \in Indices
     /\ ~HasKey(prev, last.args[1])) =>
        LET key == last.args[1]
            value == last.args[2]
            index == last.args[3]
        IN  /\ storage[index] = Some(<<key, value>>)
            /\ SameBut(storage, prev, index)
            /\ last.ret = Ret(prev[index])
            /\ is_some(prev[index]) => ~HasKey(storage, KeyOf(prev[index]))

\* A new key was placed at slot 1 of a full map, and the entry that was
\* there came back and is no longer in the map.
C11_Witness ==
    /\ last.op = "insert_at"
    /\ last.args[3] = 1
    /\ NoEmptySlot(prev)
    /\ ~HasKey(prev, last.args[1])
    /\ last.ret = <<"Some", unwrap(prev[1])>>
    /\ ~HasKey(storage, KeyOf(prev[1]))
    /\ storage[1] = Some(<<last.args[1], last.args[2]>>)

C13_SetInsertAtRelocatesPresentElement ==
    (/\ last.op = "set.insert_at"
     /\ last.args[2] \in Indices
     /\ SetHas(prev, last.args[1])
     /\ prev[last.args[2]] # Some(last.args[1])) =>
        LET element == last.args[1]
            index == last.args[2]
        IN  /\ set_find(elems, element) = Some(index)
            /\ Cardinality({i \in Indices : elems[i] = Some(element)}) = 1

\* What f answers when retain hands it the entry in slot i of s: the
\* counting closure has been called once for each occupied slot below i.
Answers(f, s, i) ==
    IF f[1] = "first"
    THEN Cardinality({j \in Indices : j < i /\ is_some(s[j])}) < f[2]
    ELSE IF f[1] = "key_le" THEN KeyOf(s[i]) <= f[2]
    ELSE ValOf(s[i]) = f[2]

C15_RetainKeepsWhereTrue ==
    last.op = "retain" =>
        LET f == last.args[1]
        IN  \A i \in Indices :
                is_some(prev[i]) =>
                    IF Answers(f, prev, i)
                    THEN is_some(storage[i]) /\ KeyOf(storage[i]) = KeyOf(prev[i])
                    ELSE is_none(storage[i])

\* The n-th occupied slot of s, counted from 1 in index order.
NthOccupied(s, n) ==
    CHOOSE i \in Indices :
        /\ is_some(s[i])
        /\ Cardinality({j \in Indices : j < i /\ is_some(s[j])}) = n - 1

\* What op yields for the entry e of a map.
ItemOf(op, e) ==
    IF op = "keys" THEN e[1]
    ELSE IF op \in {"values", "values_mut"} THEN e[2]
    ELSE e

C18_IterationIsFirstInFirstOut == ~Panicked => keys(storage) = fifo

\* The entries of the map s, as a set of pairs.
EntrySet(s) == {unwrap(s[i]) : i \in {j \in Indices : is_some(s[j])}}

(***************************************************************************)
(* C19.  PetitMap equality is equality of the sets of entries, whatever    *)
(* the slots: a == b holds exactly when a and b hold the same keys and     *)
(* each key has equal values in both, so that a == b implies b == a and a  *)
(* map never equals a map that has further keys.                           *)
(***************************************************************************)
C19_MapEqIsEqualityOfEntries ==
    last.op = "eq" =>
        LET a == prev
            b == last.args[1]
        IN  /\ last.ret[2] <=> EntrySet(a) = EntrySet(b)
            /\ last.ret[2] => map_eq(b, a)

\* The elements of the set s.
ElementSet(s) == {unwrap(s[i]) : i \in {j \in Indices : is_some(s[j])}}

(***************************************************************************)
(* C20.  PetitSet equality is equality of membership: for sets that hold   *)
(* no element twice, a == b holds exactly when both have the same number   *)
(* of elements and every element of a is in b, whatever slots the elements *)
(* are in; a == a holds, and a == b and b == a agree.                      *)
(***************************************************************************)
C20_SetEqIsEqualityOfMembership ==
    last.op = "set.eq" =>
        LET a == prev
            b == last.args[1]
        IN  /\ last.ret[2] <=>
                (/\ Cardinality(ElementSet(a)) = Cardinality(ElementSet(b))
                 /\ ElementSet(a) \subseteq ElementSet(b))
            /\ last.ret[2] <=> ElementSet(a) = ElementSet(b)
            /\ last.ret[2] <=> set_eq(b, a)
            /\ set_eq(a, a)

\* Two sets of the same two elements, held in different slots, compared
\* equal.
C20_Witness ==
    /\ last.op = "set.eq"
    /\ last.ret = Bool(TRUE)
    /\ Cardinality(ElementSet(prev)) = 2
    /\ \E i \in Indices : is_some(prev[i]) /\ prev[i] # last.args[1][i]

\* The index arguments of the last call, when it is a call of a method
\* that takes an index.
IndexArgsOfLast ==
    IF last.op \in {"get_at", "get_at_mut", "take_at", "remove_at",
                    "set.get_at", "set.get_at_mut", "set.take_at", "set.remove_at"}
    THEN {last.args[1]}
    ELSE IF last.op = "swap_at" THEN {last.args[1], last.args[2]}
    ELSE IF last.op = "insert_at" THEN {last.args[3]}
    ELSE IF last.op = "set.insert_at" THEN {last.args[2]}
    ELSE {}

\* The container the last call was made on.
ContainerOfLast ==
    IF last.op \in {"set.get_at", "set.get_at_mut", "set.take_at",
                    "set.remove_at", "set.insert_at"}
    THEN elems ELSE storage

(***************************************************************************)
(* C21.  get_at, get_at_mut, take_at, remove_at, swap_at and insert_at of  *)
(* PetitMap and of PetitSet, called with an index >= CAP, panic in every   *)
(* state: no value comes back and the container is as it was.              *)
(***************************************************************************)
C21_IndexAtOrAboveCapPanics ==
    (\E index \in IndexArgsOfLast : index >= CAP) =>
        /\ Panicked
        /\ ContainerOfLast = prev

\* The keys of the first n pairs, each once, in the order in which they
\* first come.
RECURSIVE FirstKeys(_, _)
FirstKeys(pairs, n) ==
    IF n = 0 THEN <<>>
    ELSE LET q == FirstKeys(pairs, n - 1)
             k == pairs[n][1]
         IN  IF \E m \in 1 .. Len(q) : q[m] = k THEN q ELSE Append(q, k)

\* The value of the last of the first n pairs that has key k.
LastValue(pairs, n, k) ==
    LET at == {m \in 1 .. n : pairs[m][1] = k}
    IN  pairs[CHOOSE m \in at : \A j \in at : j <= m][2]

\* The map of the first n pairs: the keys packed from slot 0 in the order
\* in which they first came, each with the value that came last for it.
PackedMap(pairs, n) ==
    LET q == FirstKeys(pairs, n)
    IN  [i \in Indices |->
            IF i < Len(q) THEN Some(<<q[i + 1], LastValue(pairs, n, q[i + 1])>>)
            ELSE None]

\* The first pair that brings a key beyond the CAP that fit, or 0.
FirstOverflow(pairs) ==
    LET over == {n \in 1 .. Len(pairs) : Len(FirstKeys(pairs, n)) > CAP}
    IN  IF over = {} THEN 0 ELSE CHOOSE n \in over : \A j \in over : n <= j

(***************************************************************************)
(* C22.  PetitMap::try_from_iter(seq) is the fold of try_insert over seq   *)
(* from an empty map: a key that comes again has its value overwritten in  *)
(* place and costs no slot; when no insertion overflows the result is      *)
(* Ok(map), the keys packed in the order they first came; otherwise it is  *)
(* Err with the map built from the pairs before the first pair that did    *)
(* not fit, and that pair, and no later pair is inserted.                  *)
(***************************************************************************)
C22_TryFromIterIsFoldOfTryInsert ==
    last.op = "try_from_iter" =>
        LET seq == last.args[1]
            n == FirstOverflow(seq)
        IN  /\ last.ret = IF n = 0
                          THEN <<"Ok", PackedMap(seq, Len(seq))>>
                          ELSE <<"Err", <<PackedMap(seq, n - 1), seq[n]>> >>
            /\ storage = prev

\* One key more than fits came, and after it a pair with another value for
\* a key the map held: the error holds the map without that last pair.
C22_Witness ==
    /\ last.op = "try_from_iter"
    /\ last.ret[1] = "Err"
    /\ LET seq == last.args[1]
           n == FirstOverflow(seq)
       IN  /\ n = CAP + 1
           /\ n < Len(seq)
           /\ HasKey(last.ret[2][1], seq[Len(seq)][1])
           /\ get(last.ret[2][1], seq[Len(seq)][1]) # Some(seq[Len(seq)][2])

\* The first n elements of seq, each once, in the order in which they
\* first come.
RECURSIVE FirstElements(_, _)
FirstElements(seq, n) ==
    IF n = 0 THEN <<>>
    ELSE LET q == FirstElements(seq, n - 1)
         IN  IF \E m \in 1 .. Len(q) : q[m] = seq[n] THEN q ELSE Append(q, seq[n])

\* The set of capacity cap that holds the elements of q packed from slot 0.
PackedSet(cap, q) ==
    [i \in 0 .. (cap - 1) |-> IF i < Len(q) THEN Some(q[i + 1]) ELSE None]

\* What the fold of try_insert over seq from an empty set of capacity cap
\* gives.
FoldOfSetTryInsert(cap, seq) ==
    LET over == {n \in 1 .. Len(seq) : Len(FirstElements(seq, n)) > cap}
    IN  IF over = {} THEN <<"Ok", PackedSet(cap, FirstElements(seq, Len(seq)))>>
        ELSE LET n == CHOOSE n \in over : \A j \in over : n <= j
             IN  <<"Err", <<PackedSet(cap, FirstElements(seq, n - 1)), seq[n]>> >>

(***************************************************************************)
(* C23.  For every capacity CAP >= 0 and every finite sequence,            *)
(* PetitSet::try_from_iter returns what the fold of try_insert over the    *)
(* sequence from an empty set returns: Ok(set) with the distinct elements  *)
(* in the order they first come, packed from slot 0, the slots after them  *)
(* empty, or Err with the full set and the first element that is neither   *)
(* in it nor fits; it never panics.                                        *)
(***************************************************************************)
C23_SetTryFromIterIsFoldOfTryInsert ==
    last.op = "set.try_from_iter" =>
        /\ ~Panicked
        /\ last.ret = FoldOfSetTryInsert(last.args[1], last.args[2])

\* The elements of a set of any capacity.
ElementsOf(s) == {unwrap(s[i]) : i \in {j \in DOMAIN s : is_some(s[j])}}

\* The elements of a set of any capacity in the order of its slots.
RECURSIVE InSlotOrder(_, _)
InSlotOrder(s, n) ==
    IF n = 0 THEN <<>>
    ELSE IF is_some(s[n - 1]) THEN Append(InSlotOrder(s, n - 1), unwrap(s[n - 1]))
    ELSE InSlotOrder(s, n - 1)

(***************************************************************************)
(* C24.  difference(A, B) holds exactly the elements of A that are not in  *)
(* B, so it shares no element with B and is a subset of A, for A and B of  *)
(* independent capacities, and it holds them in A's iteration order.       *)
(***************************************************************************)
C24_DifferenceIsAWithoutB ==
    last.op = "difference" =>
        LET A == last.args[1]
            B == last.args[2]
            D == last.ret[2]
        IN  /\ ElementsOf(D) = ElementsOf(A) \ ElementsOf(B)
            /\ ElementsOf(D) \cap ElementsOf(B) = {}
            /\ ElementsOf(D) \subseteq ElementsOf(A)
            /\ InSlotOrder(D, cap_of(D)) =
                    SelectSeq(InSlotOrder(A, cap_of(A)), LAMBDA e : e \notin ElementsOf(B))
            /\ cap_of(D) = cap_of(A)

\* A of capacity CAP held two elements
\* around an empty slot, B of the smaller capacity held the first of them
\* and another element: the difference is the second element of A alone.
C24_Witness ==
    /\ last.op = "difference"
    /\ LET A == last.args[1]
           B == last.args[2]
       IN  /\ cap_of(A) = CAP /\ cap_of(B) = OTHER_CAP
           /\ is_some(A[0]) /\ is_none(A[1]) /\ is_some(A[2])
           /\ unwrap(A[0]) \in ElementsOf(B)
           /\ ElementsOf(B) \ ElementsOf(A) # {}
           /\ last.ret[2] = [i \in 0 .. (CAP - 1) |-> IF i = 0 THEN A[2] ELSE None]

\* The number of occupied slots of a set of any capacity.
Occupied(s) == Cardinality({i \in DOMAIN s : is_some(s[i])})

\* a == b of two PetitSets read as sets: as many elements, and the same ones.
SameAsSets(a, b) ==
    /\ Occupied(a) = Occupied(b)
    /\ ElementsOf(a) = ElementsOf(b)

(***************************************************************************)
(* C25.  symmetric_difference(A, B) holds exactly the elements that are in *)
(* exactly one of A and B; as sets it equals                                *)
(* union(difference(A, B), difference(B, A)), and it equals                 *)
(* symmetric_difference(B, A).                                              *)
(***************************************************************************)
C25_SymmetricDifferenceIsExactlyOne ==
    last.op = "symmetric_difference" =>
        LET A == last.args[1]
            B == last.args[2]
            S == last.ret[2]
            U == union(into_set(difference(A, B)), into_set(difference(B, A)))
        IN  /\ ElementsOf(S) =
                    (ElementsOf(A) \ ElementsOf(B)) \cup (ElementsOf(B) \ ElementsOf(A))
            /\ NoElementTwice(S)
            /\ ~panics(U)
            /\ SameAsSets(S, into_set(U.st))
            /\ SameAsSets(S, into_set(symmetric_difference(B, A)))

\* A and B shared an element and each held one the other did not: the
\* result holds the two unshared elements, A's first.
C25_Witness ==
    /\ last.op = "symmetric_difference"
    /\ LET A == last.args[1]
           B == last.args[2]
           S == last.ret[2]
       IN  /\ ElementsOf(A) \cap ElementsOf(B) # {}
           /\ ElementsOf(A) \ ElementsOf(B) # {}
           /\ ElementsOf(B) \ ElementsOf(A) # {}
           /\ cap_of(S) = CAP + OTHER_CAP
           /\ is_some(S[0]) /\ unwrap(S[0]) \in ElementsOf(A)
           /\ is_some(S[1]) /\ unwrap(S[1]) \in ElementsOf(B)

(***************************************************************************)
(* C26.  intersection(A, B) holds exactly the elements that are in both A  *)
(* and B, so it is a subset of each, and as sets it equals                 *)
(* intersection(B, A).                                                     *)
(***************************************************************************)
C26_IntersectionIsBoth ==
    last.op = "intersection" =>
        LET A == last.args[1]
            B == last.args[2]
            I == last.ret[2]
        IN  /\ ElementsOf(I) = ElementsOf(A) \cap ElementsOf(B)
            /\ ElementsOf(I) \subseteq ElementsOf(A)
            /\ ElementsOf(I) \subseteq ElementsOf(B)
            /\ NoElementTwice(I)
            /\ cap_of(I) = max_of(cap_of(A), cap_of(B))
            /\ SameAsSets(I, into_set(intersection(B, A)))

\* A of the smaller capacity and B of the larger shared one element in
\* different slots and each held another one: the result holds the shared
\* element alone.
C26_Witness ==
    /\ last.op = "intersection"
    /\ LET A == last.args[1]
           B == last.args[2]
           I == last.ret[2]
       IN  /\ cap_of(A) = OTHER_CAP /\ cap_of(B) = CAP
           /\ Cardinality(ElementsOf(A) \cap ElementsOf(B)) = 1
           /\ ElementsOf(A) \ ElementsOf(B) # {}
           /\ ElementsOf(B) \ ElementsOf(A) # {}
           /\ Occupied(I) = 1
           /\ is_some(I[0])

(***************************************************************************)
(* C27.  union(A, B) holds every element of A and every element of B and   *)
(* nothing else, each exactly once; it does not panic or run out of slots  *)
(* for any A of capacity CAP and B of capacity OTHER_CAP; and as sets it   *)
(* equals union(B, A).                                                     *)
(***************************************************************************)
C27_UnionIsEitherOnce ==
    last.op = "union" =>
        LET A == last.args[1]
            B == last.args[2]
            R == union(B, A)
        IN  /\ ~Panicked
            /\ ElementsOf(last.ret[2]) = ElementsOf(A) \cup ElementsOf(B)
            /\ NoElementTwice(last.ret[2])
            /\ Occupied(last.ret[2]) = Cardinality(ElementsOf(A) \cup ElementsOf(B))
            /\ cap_of(last.ret[2]) = cap_of(A) + cap_of(B)
            /\ ~panics(R)
            /\ SameAsSets(last.ret[2], into_set(R.st))

\* Two full sets that shared an element: the union holds one element fewer
\* than the two sets together.
C27_Witness ==
    /\ last.op = "union"
    /\ ~Panicked
    /\ LET A == last.args[1]
           B == last.args[2]
       IN  /\ Occupied(A) = cap_of(A)
           /\ Occupied(B) = cap_of(B)
           /\ Cardinality(ElementsOf(A) \cap ElementsOf(B)) = 1
           /\ Occupied(last.ret[2]) = CAP + OTHER_CAP - 1

(***************************************************************************)
(* C28.  is_subset(A, B) is true exactly when every element of A is in B,  *)
(* is_superset(A, B) exactly when every element of B is in A; so           *)
(* is_subset(A, A) is true and is_superset(A, B) = is_subset(B, A), empty  *)
(* sets included.                                                          *)
(***************************************************************************)
C28_SubsetAndSupersetAreInclusion ==
    LET A == last.args[1]
        B == last.args[2]
    IN  /\ last.op = "is_subset" =>
                /\ last.ret[2] = (ElementsOf(A) \subseteq ElementsOf(B))
                /\ is_superset(B, A) = last.ret[2]
                /\ A = B => last.ret[2]
        /\ last.op = "is_superset" =>
                /\ last.ret[2] = (ElementsOf(B) \subseteq ElementsOf(A))
                /\ last.ret[2] = is_subset(B, A)

\* A non-empty A of the smaller capacity all of whose elements B held, with
\* one more: is_subset(A, B) was true.
C28_Witness ==
    /\ last.op = "is_subset"
    /\ LET A == last.args[1]
           B == last.args[2]
       IN  /\ cap_of(A) = OTHER_CAP /\ cap_of(B) = CAP
           /\ Occupied(A) = OTHER_CAP
           /\ ElementsOf(B) \ ElementsOf(A) # {}
           /\ last.ret = Bool(TRUE)

(***************************************************************************)
(* C29.  is_disjoint(A, B) is true exactly when A and B share no element:  *)
(* it is the emptiness of intersection(A, B), it is the same both ways     *)
(* round, and it is true when either set is empty.                         *)
(***************************************************************************)
C29_DisjointIsNoSharedElement ==
    last.op = "is_disjoint" =>
        LET A == last.args[1]
            B == last.args[2]
        IN  /\ last.ret[2] = (ElementsOf(A) \cap ElementsOf(B) = {})
            /\ last.ret[2] = (Occupied(into_set(intersection(A, B))) = 0)
            /\ last.ret[2] = is_disjoint(B, A)
            /\ (Occupied(A) = 0 \/ Occupied(B) = 0) => last.ret[2]

\* Two sets whose only shared element was the last one of A: is_disjoint
\* was false.
C29_Witness ==
    /\ last.op = "is_disjoint"
    /\ LET A == last.args[1]
           B == last.args[2]
       IN  /\ cap_of(A) = CAP /\ cap_of(B) = OTHER_CAP
           /\ Occupied(A) = CAP
           /\ ElementsOf(A) \cap ElementsOf(B) = {unwrap(A[CAP - 1])}
           /\ last.ret = Bool(FALSE)

(***************************************************************************)
(* C30.  A map written as a sequence and read back at the same capacity    *)
(* has in every slot what the original had there, an entry or nothing, the *)
(* slots emptied by removals included; the sequence written has exactly    *)
(* CAP elements.                                                           *)
(***************************************************************************)
C30_SerdeRoundTripKeepsEverySlot ==
    last.op = "serde" =>
        /\ \A i \in Indices : storage[i] = prev[i]
        /\ Len(last.ret[2]) = CAP
        /\ \A i \in Indices : last.ret[2][i + 1] = prev[i]

\* A map with an empty slot between two entries, left by a removal, has
\* been written and read back.
C30_Witness ==
    /\ last.op = "serde"
    /\ is_some(prev[0])
    /\ is_none(prev[1])
    /\ is_some(prev[2])
    /\ is_none(storage[1])

(***************************************************************************)
(* C31.  From an empty container and through the checked operations only   *)
(* (try_insert, insert, insert_at, extend, try_from_iter, remove,          *)
(* remove_at, take, take_at, swap, swap_at, retain with a predicate that   *)
(* leaves the keys alone, clear), no two occupied slots ever hold equal    *)
(* keys, in the map and in the set.                                        *)
(***************************************************************************)
C31_CheckedRunsKeepKeysDistinct ==
    /\ UniqueKeys(storage)
    /\ NoElementTwice(elems)

\* extend was given the same key twice by a map that held the key already:
\* the key is in one slot.
C31_Witness ==
    /\ last.op = "extend"
    /\ ~Panicked
    /\ Len(last.args[1]) = 2
    /\ last.args[1][1][1] = last.args[1][2][1]
    /\ HasKey(prev, last.args[1][1][1])
    /\ Cardinality({i \in Indices : is_some(storage[i])
                        /\ KeyOf(storage[i]) = last.args[1][1][1]}) = 1

\* The elements the loops of an operation hand to insert_unchecked, in the
\* order of the calls: for union, the loop over self only, the elements of
\* other going through insert.
PassedUnchecked(op, self, other) ==
    IF op = "difference"
    THEN SelectSeq(alg_iter(self), LAMBDA s : ~alg_contains(other, s))
    ELSE IF op = "symmetric_difference"
    THEN SelectSeq(alg_iter(self), LAMBDA s : ~alg_contains(other, s))
            \o SelectSeq(alg_iter(other), LAMBDA o : ~alg_contains(self, o))
    ELSE IF op = "intersection"
    THEN SelectSeq(alg_iter(self), LAMBDA s : alg_contains(other, s))
    ELSE alg_iter(self)

\* The calls of insert_unchecked that hand the elements from the n-th on to
\* a result that starts as set: what the result was before each call, and
\* the element of the call.
RECURSIVE UncheckedCalls(_, _, _)
UncheckedCalls(set, elements, n) ==
    IF n > Len(elements) THEN <<>>
    ELSE <<[before |-> set, element |-> elements[n]]>>
            \o UncheckedCalls(set_insert_unchecked(set, elements[n]), elements, n + 1)

\* The result after the calls.
RECURSIVE AfterUnchecked(_, _, _)
AfterUnchecked(set, elements, n) ==
    IF n > Len(elements) THEN set
    ELSE AfterUnchecked(set_insert_unchecked(set, elements[n]), elements, n + 1)

(***************************************************************************)
(* C32.  In difference, symmetric_difference, intersection and union of    *)
(* sets that hold no element twice, every call of insert_unchecked hands   *)
(* over an element the result does not hold yet and finds an empty slot,   *)
(* so that no element is dropped and the result holds no element twice.    *)
(***************************************************************************)
C32_UncheckedInsertsAreNewAndFit ==
    (last.op \in {"difference", "symmetric_difference", "intersection", "union"}
            /\ ~Panicked) =>
        LET A == last.args[1]
            B == last.args[2]
            R == last.ret[2]
            passed == PassedUnchecked(last.op, A, B)
            calls == UncheckedCalls(PetitSetIter_default(cap_of(R)), passed, 1)
            after == AfterUnchecked(PetitSetIter_default(cap_of(R)), passed, 1)
        IN  /\ \A n \in 1 .. Len(calls) :
                    /\ ~alg_contains(calls[n].before, calls[n].element)
                    /\ is_some(alg_scan_empty(calls[n].before, 0))
            /\ Occupied(after) = Len(passed)
            /\ IF last.op = "union"
               THEN R = union_other_from(B, 1, after).st
               ELSE R = after
            /\ \A n \in 1 .. Len(passed) : alg_contains(R, passed[n])
            /\ NoElementTwice(R)

\* A full set of capacity CAP and a set with one element that it does not
\* hold: symmetric_difference called insert_unchecked CAP + 1 times, one
\* more than either set has slots, and its result holds CAP + 1 elements.
C32_Witness ==
    /\ last.op = "symmetric_difference"
    /\ LET A == last.args[1]
           B == last.args[2]
       IN  /\ cap_of(A) = CAP
           /\ Occupied(A) = CAP
           /\ Occupied(B) = 1
           /\ ElementsOf(A) \cap ElementsOf(B) = {}
           /\ Len(PassedUnchecked(last.op, A, B)) = CAP + 1
           /\ Occupied(last.ret[2]) = CAP + 1

(***************************************************************************)
(* C33.  swap(key_a, key_b) returns true exactly when both keys are        *)
(* present, and then the contents of their two slots are exchanged; when   *)
(* either key is absent it returns false and no slot changes.              *)
(* swap_at(i, j) with i, j < CAP exchanges slots i and j, empty or not.    *)
(* Every other slot, len() and the set of stored entries stay as they      *)
(* were.                                                                   *)
(***************************************************************************)
C33_SwapExchangesTwoSlotsOnly ==
    /\ last.op = "swap" =>
            LET key_a == last.args[1]
                key_b == last.args[2]
                both == HasKey(prev, key_a) /\ HasKey(prev, key_b)
            IN  /\ last.ret = Bool(both)
                /\ both =>
                    LET a == SlotOf(prev, key_a)
                        b == SlotOf(prev, key_b)
                    IN  /\ storage[a] = prev[b]
                        /\ storage[b] = prev[a]
                        /\ \A i \in Indices \ {a, b} : storage[i] = prev[i]
                /\ ~both => storage = prev
                /\ len(storage) = len(prev)
                /\ EntrySet(storage) = EntrySet(prev)
    /\ (last.op = "swap_at" /\ last.args[1] < CAP /\ last.args[2] < CAP) =>
            LET i == last.args[1]
                j == last.args[2]
            IN  /\ ~Panicked
                /\ storage[i] = prev[j]
                /\ storage[j] = prev[i]
                /\ \A k \in Indices \ {i, j} : storage[k] = prev[k]
                /\ len(storage) = len(prev)
                /\ EntrySet(storage) = EntrySet(prev)

\* A full map was asked to swap the keys of its first and last slots.
C33_Witness ==
    /\ last.op = "swap"
    /\ last.ret = Bool(TRUE)
    /\ NoEmptySlot(prev)
    /\ SlotOf(prev, last.args[1]) = 0
    /\ SlotOf(prev, last.args[2]) = CAP - 1
    /\ storage[0] = prev[CAP - 1]
    /\ storage[CAP - 1] = prev[0]
    /\ storage # prev

\* The entries the calls of next() returned so far.
Yielded ==
    {it.results[n][2] : n \in {m \in 1 .. Len(it.results) : it.results[m][1] = "Some"}}

\* The map inside a PetitMapIter after some calls of next(): every slot
\* holds what it held when into_iter was called or nothing, the entries
\* that are gone are the entries yielded, no slot below the cursor is
\* occupied, and the cursor is at most CAP.
MapInIterator ==
    it.kind = "map" =>
        /\ \A i \in Indices : storage[i] = it.origin[i] \/ is_none(storage[i])
        /\ EntrySet(storage) = EntrySet(it.origin) \ Yielded
        /\ Yielded \subseteq EntrySet(it.origin)
        /\ len(storage) = len(it.origin) - Cardinality(Yielded)
        /\ \A i \in Indices : i < it.cursor => is_none(storage[i])
        /\ it.cursor <= CAP

\* A call of next() does not move the cursor back.
CursorGoesForward ==
    (it.kind = "map" /\ it'.kind = "map") => it'.cursor >= it.cursor

(***************************************************************************)
(* C34.  At every point of a consuming iteration, after any number of      *)
(* calls of next() on a PetitMapIter, the map the iterator holds (what     *)
(* into_map returns) has exactly the entries not yet yielded, each in the  *)
(* slot it was in; every slot below the cursor is empty; and the cursor    *)
(* never decreases and never exceeds CAP.                                  *)
(***************************************************************************)
C34_IteratorHoldsWhatIsNotYetYielded ==
    /\ []MapInIterator
    /\ [][CursorGoesForward]_vars

\* A full map was moved into its iterator and next() called twice: the map
\* holds its last entry alone, in the last slot, and the cursor is at 2.
C34_Witness ==
    /\ it.kind = "map"
    /\ NoEmptySlot(it.origin)
    /\ Len(it.results) = 2
    /\ it.cursor = 2
    /\ is_none(storage[0]) /\ is_none(storage[1])
    /\ \A i \in Indices : i >= 2 => storage[i] = it.origin[i]

\* The container c holds the first CAP elements of the sequence, each in
\* the slot of its position, and nothing in the slots past its end.
HoldsEncoded(c, access) ==
    \A i \in Indices :
        c[i] = IF i < Len(access) THEN access[i + 1] ELSE None

(***************************************************************************)
(* C35.  Deserialization puts the i-th encoded element in slot i for every *)
(* i below the encoded length and below CAP: a sequence shorter than CAP   *)
(* leaves the slots after it empty, a sequence longer than CAP is cut to   *)
(* its first CAP elements with no error, and the positions, those of the   *)
(* empty elements included, are kept.                                      *)
(***************************************************************************)
C35_DeserializeFillsSlotsByPosition ==
    /\ last.op = "deserialize" =>
            /\ last.ret[1] = "Ok"
            /\ HoldsEncoded(last.ret[2], last.args[1])
    /\ last.op = "set.deserialize" =>
            /\ last.ret[1] = "Ok"
            /\ HoldsEncoded(last.ret[2], last.args[1])

\* A sequence of CAP + 1 elements that starts with an empty one was read
\* into a map: slot 0 is empty, the next slots hold the entries that
\* followed, and the last element is left out.
C35_Witness ==
    /\ last.op = "deserialize"
    /\ Len(last.args[1]) = CAP + 1
    /\ is_none(last.args[1][1])
    /\ \A n \in 2 .. (CAP + 1) : is_some(last.args[1][n])
    /\ is_none(last.ret[2][0])
    /\ \A i \in 1 .. (CAP - 1) : last.ret[2][i] = last.args[1][i + 1]

\* What the set s holds once the first n of the elements are in it.
HeldAfter(s, elements, n) == ElementSet(s) \cup {elements[m] : m \in 1 .. n}

\* The n-th element is not in the set when its turn comes, and the set is
\* full.
Misfit(s, elements, n) ==
    /\ elements[n] \notin HeldAfter(s, elements, n - 1)
    /\ Cardinality(HeldAfter(s, elements, n - 1)) >= CAP

(***************************************************************************)
(* C36.  PetitSet::try_extend(elements) inserts the elements in order and  *)
(* stops at the first one that is neither in the set nor fits: it returns  *)
(* the CapacityError that carries this element, the elements inserted      *)
(* before it stay in the set, and none after it is inserted.  When every   *)
(* element is in the set or fits, it returns Ok(()).                       *)
(***************************************************************************)
C36_TryExtendStopsAtFirstMisfit ==
    last.op = "set.try_extend" =>
        LET elements == last.args[1]
            misfits == {n \in 1 .. Len(elements) : Misfit(prev, elements, n)}
        IN  /\ \A i \in Indices : is_some(prev[i]) => elems[i] = prev[i]
            /\ NoElementTwice(elems)
            /\ IF misfits = {}
               THEN /\ last.ret = <<"Ok", Unit>>
                    /\ ElementSet(elems) = HeldAfter(prev, elements, Len(elements))
               ELSE LET first == CHOOSE n \in misfits : \A m \in misfits : n <= m
                    IN  /\ last.ret = <<"Err", elements[first]>>
                        /\ ElementSet(elems) = HeldAfter(prev, elements, first - 1)

\* A set with one empty slot was given three elements it did not hold, all
\* three different: the first was inserted, the second came back in the error,
\* and the third was not looked at.
C36_Witness ==
    /\ last.op = "set.try_extend"
    /\ Len(last.args[1]) = 3
    /\ set_len(prev) = CAP - 1
    /\ ElementSet(prev) \cap {last.args[1][n] : n \in 1 .. 3} = {}
    /\ last.args[1][1] # last.args[1][2]
    /\ last.args[1][2] # last.args[1][3]
    /\ last.args[1][1] # last.args[1][3]
    /\ last.ret = <<"Err", last.args[1][2]>>
    /\ ElementSet(elems) = ElementSet(prev) \cup {last.args[1][1]}

\* a and b hold one entry each, the same one, in different slots.
SameSingleEntryElsewhere(a, b) ==
    /\ len(a) = 1
    /\ len(b) = 1
    /\ EntrySet(a) = EntrySet(b)
    /\ a # b

(***************************************************************************)
(* C37.  Hashing is positional: what is hashed is the array of slots, so   *)
(* two maps with the same slots, as the same operations build them, are    *)
(* given the same hash input, and two maps with different slots are not;   *)
(* two maps that hold the same single entry in different slots (one by     *)
(* insert, the other by insert_at) have different hash inputs although     *)
(* they are equal under ==.                                                *)
(***************************************************************************)
C37_HashInputIsTheSlotArray ==
    last.op = "hash" =>
        LET other == last.args[1]
        IN  /\ (last.ret[2] = last.ret[3]) <=> (storage = other)
            /\ SameSingleEntryElsewhere(storage, other) =>
                    /\ last.ret[2] # last.ret[3]
                    /\ last.ret[4]

\* The map of the run holds one entry in its last slot, put there by
\* insert_at; the other map holds the same entry in slot 0, where insert
\* puts it: equal, and hashed differently.
C37_Witness ==
    /\ last.op = "hash"
    /\ SameSingleEntryElsewhere(storage, last.args[1])
    /\ is_some(storage[CAP - 1])
    /\ is_some(last.args[1][0])
    /\ last.ret[2] # last.ret[3]
    /\ last.ret[4]

====
